---- MODULE Spec2Model ----
(***************************************************************************)
(* Market Data Service: the ISIN resolution pipeline                        *)
(* (YahooFinanceService.search_by_isin and its fallback stages), the        *)
(* justETF discovery provider with its circuit breaker and metadata cache,  *)
(* and the batch executor.                                                  *)
(*                                                                          *)
(* A Python str is a sequence of one-character strings.  None and a         *)
(* missing dict key are the one-element sequences PyNone and Missing,       *)
(* whose element is not a character, so neither equals any str.             *)
(***************************************************************************)
EXTENDS Integers, Sequences, FiniteSets, TLC

\* ------------------------------------------------------------------ bounds

\* The clock advances while it reads less than MaxTime minutes,
\* TickMinutes at a time.
MaxTime == 15
TickMinutes == 5
\* Top-level calls (provider lookups, batch items) started in one behaviour.
MaxCalls == 3
\* Candidates a name search may return (the code inspects the first 3).
MaxQuotes == 4
\* Items of a batch request.
MaxBatch == 3

\* get_quote frames on the stack before the interpreter raises RecursionError
MaxDepth == 3

\* ----------------------------------------------------------------- strings

PyNone == <<"None">>
Missing == <<"Missing">>

UpperLetters ==
  {"A","B","C","D","E","F","G","H","I","J","K","L","M",
   "N","O","P","Q","R","S","T","U","V","W","X","Y","Z"}
Digits == {"0","1","2","3","4","5","6","7","8","9"}

\* str.upper() on one character (the lowercase letters the model uses).
UpperChar(c) ==
  CASE c = "i" -> "I"
    [] c = "e" -> "E"
    [] c = "b" -> "B"
    [] c = "k" -> "K"
    [] c = "q" -> "Q"
    [] c = "t" -> "T"
    [] OTHER -> c

Upper(s) == [i \in 1..Len(s) |-> UpperChar(s[i])]

\* Python truthiness of a str-or-None value read with dict.get.
Truthy(v) == v # PyNone /\ v # Missing /\ v # <<>>

\* Positions of "." in s.
DotPositions(s) == {i \in 1..Len(s) : s[i] = "."}

MinOf(S) == CHOOSE x \in S : \A y \in S : x <= y
MaxOf(S) == CHOOSE x \in S : \A y \in S : x >= y

\* s.split(".")[0]
SplitFirst(s) ==
  IF DotPositions(s) = {} THEN s ELSE SubSeq(s, 1, MinOf(DotPositions(s)) - 1)

\* s.rsplit(".", 1)[0]
RsplitBase(s) ==
  IF DotPositions(s) = {} THEN s ELSE SubSeq(s, 1, MaxOf(DotPositions(s)) - 1)

\* s.split(".")[-1]
SplitLast(s) ==
  IF DotPositions(s) = {} THEN s ELSE SubSeq(s, MaxOf(DotPositions(s)) + 1, Len(s))

\* sub in s
Contains(sub, s) ==
  \E i \in 1..(Len(s) - Len(sub) + 1) : SubSeq(s, i, i + Len(sub) - 1) = sub

\* ------------------------------------------------------ identifier validator

\* re.match(r"^[A-Z]{2}[A-Z0-9]{9}\d$", s): "$" also matches before one
\* trailing newline.
IsinPattern(s) ==
  /\ Len(s) \in {12, 13}
  /\ Len(s) = 13 => s[13] = "\n"
  /\ \A i \in 1..2 : s[i] \in UpperLetters
  /\ \A i \in 3..11 : s[i] \in UpperLetters \cup Digits
  /\ s[12] \in Digits

is_valid_isin(isin) ==
  IF isin = PyNone \/ isin = <<>> THEN FALSE ELSE IsinPattern(Upper(isin))


\* ---------------------------------------------------------------- test data

IsinU == <<"I","E","0","0","B","K","5","B","Q","T","8","0">>
IsinL == <<"i","e","0","0","b","k","5","b","q","t","8","0">>
IsinOther == <<"D","E","0","0","0","7","1","6","4","6","0","0">>
NotAnIsin == <<"I","N","V","A","L","I","D">>

SymNato == <<"N","A","T","O">>
SymNatoL == <<"N","A","T","O",".","L">>
SymNatoDE == <<"N","A","T","O",".","D","E">>
SymIsinSG == IsinU \o <<".","S","G">>

NameEtf == <<"E","T","F">>
NameNatoEtf == <<"N","A","T","O"," ","E","T","F">>

\* ------------------------------------------------------------ state

VARIABLES
  now,            \* datetime.now(UTC), in minutes
  blocked_until,  \* JustETFProvider.blocked_until: <<>> (None) or <<minute>>
  cache_enabled,  \* MetadataCache.enabled
  cache,          \* the Redis backend: ISIN -> <<>> or <<serialized TickerInfo>>
  http_count,     \* HTTP GETs issued by the justETF session
  calls,          \* top-level calls started
  ppc,            \* per thread: position inside JustETFProvider.search_by_isin
  pisin,          \* per thread: the isin argument of the provider call
  pinfo,          \* per thread: the TickerInfo scraped, before it is cached
  pres,           \* per thread: the provider call's outcome
  pobs,           \* per thread: what the current provider call has observed
  tripped_by,     \* the isin whose lookup received the last HTTP 403
  cache_ops,      \* operations issued to the Redis backend
  epc,            \* position inside YahooFinanceService.search_by_isin
  q,              \* its isin argument
  quote,          \* search_result.quotes[0] of the initial search
  cands,          \* the symbols the current loop still has to probe
  tinfo,          \* ticker_info returned by the provider
  outcome,        \* what search_by_isin returned or raised
  log,            \* the collaborator calls made, in order
  raised,         \* the exception the last step saw a collaborator raise, if any
  bpc,            \* position inside batch_search_by_isins / batch_get_quotes
  bop,            \* which of the two batch operations is running
  items,          \* its input list
  opres,          \* per input position: what the threaded operation did
  results,        \* the successes collected
  errors,         \* the (key, message) pairs collected
  cdir,           \* the metadata cache used directly: construction, last call
  gstack,         \* get_quote: the symbols of the nested calls, outermost first
  gout,           \* get_quote: what the outermost call returned or raised
  gstat,          \* get_quote: engine runs and get_quote calls made so far
  fin,            \* a function applied on its own: its arguments
  fout,           \* ... and what it returned
  twin,           \* the same lookups made with the cache disabled
  env             \* what the web source and the primary source answer, per ISIN

provVars == <<now, blocked_until, cache_enabled, cache, http_count, calls,
              ppc, pisin, pinfo, pres, pobs, tripped_by, cache_ops>>

engVars == <<epc, q, quote, cands, tinfo, outcome, log, raised>>

batchVars == <<bpc, bop, items, opres, results, errors>>

auxVars == <<cdir, gstack, gout, gstat, fin, fout, twin, env>>

vars == <<provVars, engVars, batchVars, auxVars>>

Threads == {"t1", "t2"}

\* The isins a provider lookup is made for.
ProvIsins == {IsinU, IsinOther}

\* ------------------------------------------------------------ TickerInfo

TickerInfo(symbol, name, exchange, currency) ==
  [symbol |-> symbol, name |-> name, exchange |-> exchange, currency |-> currency]

\* TickerInfo.to_dict + json.dumps: the four fields, in declaration order.
to_dict_lossy(info) == <<info.symbol, info.symbol, info.exchange, info.currency>>

\* TickerInfo.to_dict + json.dumps
to_dict(info) == <<info.symbol, info.name, info.exchange, info.currency>>

\* from_dict reading exchange and currency from each other's key.
from_dict_swapped(data) == TickerInfo(data[1], data[2], data[4], data[3])

\* json.loads + TickerInfo.from_dict
from_dict(data) == TickerInfo(data[1], data[2], data[3], data[4])

\* ------------------------------------------------------------ outcomes

\* A call's outcome: still running, absent (None), a value, or an exception.
Pending == [kind |-> "pending", val |-> <<>>, err |-> ""]
Absent == [kind |-> "absent", val |-> <<>>, err |-> ""]
Value(v) == [kind |-> "value", val |-> <<v>>, err |-> ""]
Raised(e) == [kind |-> "raise", val |-> <<>>, err |-> e]

\* ------------------------------------------------------------ metadata cache

\* Data under a key that json.loads or TickerInfo.from_dict rejects.
Corrupt == <<"{">>

\* json.loads(data) gives the four fields from_dict needs.
Decodable(data) == Len(data) = 4

\* The key holds data that get cannot turn into a TickerInfo.
Undecodable(store, isin) == store[isin] # <<>> /\ ~Decodable(store[isin][1])

\* MetadataCache.get: absent when disabled, when the backend raises (backendOk
\* false), when the key holds no data and when the data cannot be decoded;
\* every error is logged and swallowed.
cache_get(enabled, store, isin, backendOk) ==
  IF ~enabled THEN <<>>
  ELSE IF ~backendOk THEN <<>>
  ELSE IF store[isin] = <<>> THEN <<>>
  ELSE IF Decodable(store[isin][1]) THEN <<from_dict(store[isin][1])>>
  ELSE <<>>

\* cache_set without the `if not self.enabled: return` of lines 69-70.
cache_set_always(enabled, store, isin, info, backendOk) ==
  IF ~backendOk THEN store
  ELSE [store EXCEPT ![isin] = <<to_dict(info)>>]

\* MetadataCache.set: the store after the call (setex of the serialized info);
\* unchanged when disabled or when the backend raises.
cache_set(enabled, store, isin, info, backendOk) ==
  IF ~enabled THEN store
  ELSE IF ~backendOk THEN store
  ELSE [store EXCEPT ![isin] = <<to_dict(info)>>]

\* ------------------------------------------------------------ circuit breaker

\* timedelta(minutes=10)
BLOCK_MINUTES == 10

\* What a provider call has seen so far: the breaker field when the call
\* started, whether that timestamp had elapsed then, whether the cache
\* answered, the HTTP requests the call issued, what _is_blocked reported,
\* whether another call's 403 tripped the breaker meanwhile, whether the
\* cache backend failed on the call's read or write.
NoObs == [start_until |-> <<>>, elapsed_at_start |-> FALSE,
          cache_hit |-> FALSE, http |-> 0, reported |-> "none",
          retripped |-> FALSE, cache_read_failed |-> FALSE,
          cache_write_failed |-> FALSE]

\* datetime.now(UTC) < self.blocked_until, for a timestamp `until`.
StillBlocked(n, until) == n < until

\* datetime.now(UTC) + timedelta(minutes=10)
TripUntil(n) == n + BLOCK_MINUTES

\* The breaker is open: a trip is recorded and its timestamp has not elapsed.
BreakerOpen == blocked_until # <<>> /\ now < blocked_until[1]

\* A trip is recorded and its timestamp has elapsed.
BreakerElapsed == blocked_until # <<>> /\ now >= blocked_until[1]

\* search_by_isin without lines 140-142: the cache is never asked.
ProvCacheGetSkipped(t) ==
  /\ ppc[t] = "cache_get"
  /\ ppc' = [ppc EXCEPT ![t] = "brk_read"]
  /\ UNCHANGED <<now, blocked_until, cache_enabled, cache, http_count, calls,
                 pisin, pinfo, pres, pobs, tripped_by, cache_ops>>

\* search_by_isin, lines 140-142: the cache is checked first.
ProvCacheGet(t) ==
  /\ ppc[t] = "cache_get"
  /\ \E backendOk \in BOOLEAN :
       LET cached == cache_get(cache_enabled, cache, pisin[t], backendOk) IN
       IF cached # <<>>
         THEN /\ ppc' = [ppc EXCEPT ![t] = "done"]
              /\ pres' = [pres EXCEPT ![t] = Value(cached[1])]
              /\ pobs' = [pobs EXCEPT ![t].cache_hit = TRUE]
         ELSE /\ ppc' = [ppc EXCEPT ![t] = "brk_read"]
              /\ pobs' = [pobs EXCEPT ![t].cache_read_failed = cache_enabled /\ ~backendOk]
              /\ UNCHANGED pres
  /\ cache_ops' = IF cache_enabled THEN cache_ops + 1 ELSE cache_ops
  /\ UNCHANGED <<now, blocked_until, cache_enabled, cache, http_count, calls,
                 pisin, pinfo, tripped_by>>

\* _is_blocked, line 129, left operand: the truthiness of self.blocked_until.
IsBlockedRead(t) ==
  /\ ppc[t] = "brk_read"
  /\ ppc' = [ppc EXCEPT ![t] = IF blocked_until # <<>> THEN "brk_cmp" ELSE "brk_clear"]
  /\ UNCHANGED <<now, blocked_until, cache_enabled, cache, http_count, calls,
                 pisin, pinfo, pres, pobs, tripped_by, cache_ops>>

\* _is_blocked, line 129, right operand: datetime.now(UTC) < self.blocked_until,
\* a second read of the field.  Comparing with None raises TypeError, which
\* leaves search_by_isin (the call at line 145 is outside its try block).
IsBlockedCompare(t) ==
  /\ ppc[t] = "brk_cmp"
  /\ IF blocked_until = <<>>
       THEN /\ ppc' = [ppc EXCEPT ![t] = "done"]
            /\ pres' = [pres EXCEPT ![t] = Raised("TypeError")]
            /\ pobs' = [pobs EXCEPT ![t].reported = "raise"]
       ELSE IF StillBlocked(now, blocked_until[1])
         THEN /\ ppc' = [ppc EXCEPT ![t] = "done"]
              /\ pres' = [pres EXCEPT ![t] = Absent]
              /\ pobs' = [pobs EXCEPT ![t].reported = "blocked"]
         ELSE /\ ppc' = [ppc EXCEPT ![t] = "brk_clear"]
              /\ UNCHANGED <<pres, pobs>>
  /\ UNCHANGED <<now, blocked_until, cache_enabled, cache, http_count, calls,
                 pisin, pinfo, tripped_by, cache_ops>>

\* _is_blocked, lines 131-132: self.blocked_until = None; return False.
IsBlockedClear(t) ==
  /\ ppc[t] = "brk_clear"
  /\ blocked_until' = <<>>
  /\ ppc' = [ppc EXCEPT ![t] = "http_send"]
  /\ pobs' = [pobs EXCEPT ![t].reported = "not_blocked"]
  /\ UNCHANGED <<now, cache_enabled, cache, http_count, calls, pisin, pinfo, pres,
                 tripped_by, cache_ops>>

\* ------------------------------------------------------------ scraping

\* EXCHANGE_TO_SUFFIX, in the dict's insertion order.
EXCHANGE_TO_SUFFIX ==
  << <<"XETRA", <<".","D","E">> >>,
     <<"gettex", <<".","D","E">> >>,
     <<"London Stock Exchange", <<".","L">> >>,
     <<"Euronext Paris", <<".","P","A">> >>,
     <<"Euronext Amsterdam", <<".","A","S">> >>,
     <<"Borsa Italiana", <<".","M","I">> >>,
     <<"SIX Swiss Exchange", <<".","S","W">> >> >>

\* _extract_exchange: the first table entry whose name occurs in the page
\* text; (None, ".L") when none does.  `present` is the set of names in the page.
extract_exchange(present) ==
  LET hits == {i \in 1..Len(EXCHANGE_TO_SUFFIX) : EXCHANGE_TO_SUFFIX[i][1] \in present} IN
  IF hits = {} THEN <<PyNone, <<".","L">> >>
  ELSE << <<EXCHANGE_TO_SUFFIX[MinOf(hits)][1]>>, EXCHANGE_TO_SUFFIX[MinOf(hits)][2] >>

\* a or b, on str-or-None values
OrElse(a, b) == IF Truthy(a) THEN a ELSE b

\* A page, by what the extractors find in it: the ticker and the name (a str
\* or None), the exchange names in the text, the currency (a str or None),
\* and whether parsing raises.
Page(parse_error, ticker, name, exchanges, currency) ==
  [parse_error |-> parse_error, ticker |-> ticker, name |-> name,
   exchanges |-> exchanges, currency |-> currency]

\* The pages an HTTP 200 may carry.
Pages ==
  {Page(TRUE, SymNato, PyNone, {}, PyNone),
   Page(FALSE, PyNone, NameNatoEtf, {"XETRA"}, PyNone),
   Page(FALSE, SymNato, PyNone, {}, PyNone),
   Page(FALSE, SymNato, NameNatoEtf, {"London Stock Exchange", "gettex"}, <<"USD">>)}

\* search_by_isin, lines 177-189: the TickerInfo built from a parsed page.
ScrapedInfo(page) ==
  LET ex == extract_exchange(page.exchanges) IN
  TickerInfo(page.ticker \o ex[2],
             OrElse(page.name, page.ticker),
             OrElse(ex[1], <<"Unknown">>),
             OrElse(page.currency, <<"EUR">>))

\* search_by_isin, lines 151-155: session.get is issued.
HttpSend(t) ==
  /\ ppc[t] = "http_send"
  /\ http_count' = http_count + 1
  /\ pobs' = [pobs EXCEPT ![t].http = @ + 1]
  /\ ppc' = [ppc EXCEPT ![t] = "http_recv"]
  /\ UNCHANGED <<now, blocked_until, cache_enabled, cache, calls, pisin, pinfo, pres,
                 tripped_by, cache_ops>>

\* HttpRecvWith caching what it has whatever the response: the lookup
\* stores the page's data and returns None.
HttpRecvWithCachesAnything(t, status, page) ==
  /\ ppc[t] = "http_recv"
  /\ cache' = cache_set(cache_enabled, cache, pisin[t], ScrapedInfo(page), TRUE)
  /\ ppc' = [ppc EXCEPT ![t] = "done"]
  /\ pres' = [pres EXCEPT ![t] = Absent]
  /\ UNCHANGED <<now, blocked_until, cache_enabled, http_count, calls, pisin, pinfo,
                 pobs, tripped_by, cache_ops>>

\* search_by_isin, lines 157-201: the response (or the transport error) is
\* handled.  A 403 trips the breaker; every other failure returns None.
HttpRecvWith(t, status, page) ==
  /\ ppc[t] = "http_recv"
  /\ IF status = "403"
         THEN /\ blocked_until' = <<TripUntil(now)>>
              /\ tripped_by' = pisin[t]
              /\ ppc' = [ppc EXCEPT ![t] = "done"]
              /\ pres' = [pres EXCEPT ![t] = Absent]
              /\ pobs' = [u \in Threads |->
                            IF u # t /\ ppc[u] # "idle"
                              THEN [pobs[u] EXCEPT !.retripped = TRUE] ELSE pobs[u]]
              /\ UNCHANGED pinfo
       ELSE IF status # "200" \/ page.parse_error \/ page.ticker = PyNone
         THEN /\ ppc' = [ppc EXCEPT ![t] = "done"]
              /\ pres' = [pres EXCEPT ![t] = Absent]
              /\ UNCHANGED <<blocked_until, tripped_by, pinfo, pobs>>
         ELSE /\ pinfo' = [pinfo EXCEPT ![t] = <<ScrapedInfo(page)>>]
              /\ ppc' = [ppc EXCEPT ![t] = "cache_set"]
              /\ UNCHANGED <<blocked_until, tripped_by, pres, pobs>>
  /\ UNCHANGED <<now, cache_enabled, cache, http_count, calls, pisin, cache_ops>>

\* The response is whatever the web source sends.
HttpRecv(t) ==
  \E status \in {"403", "500", "neterr", "200"} : \E page \in Pages :
    HttpRecvWith(t, status, page)

\* ProvCacheSet with a MetadataCache.set that lets the backend's exception
\* out: the except clause of line 199 then turns the lookup into None.
ProvCacheSetUnguarded(t) ==
  /\ ppc[t] = "cache_set"
  /\ \E backendOk \in BOOLEAN :
       /\ cache' = cache_set(cache_enabled, cache, pisin[t], pinfo[t][1], backendOk)
       /\ pobs' = [pobs EXCEPT ![t].cache_write_failed = cache_enabled /\ ~backendOk]
       /\ pres' = [pres EXCEPT ![t] = IF cache_enabled /\ ~backendOk THEN Absent
                                      ELSE Value(pinfo[t][1])]
  /\ pinfo' = [pinfo EXCEPT ![t] = <<>>]
  /\ ppc' = [ppc EXCEPT ![t] = "done"]
  /\ cache_ops' = IF cache_enabled THEN cache_ops + 1 ELSE cache_ops
  /\ UNCHANGED <<now, blocked_until, cache_enabled, http_count, calls, pisin,
                 tripped_by>>

\* search_by_isin, lines 191-194: the result is cached, then returned.
ProvCacheSet(t) ==
  /\ ppc[t] = "cache_set"
  /\ \E backendOk \in BOOLEAN :
       /\ cache' = cache_set(cache_enabled, cache, pisin[t], pinfo[t][1], backendOk)
       /\ pobs' = [pobs EXCEPT ![t].cache_write_failed = cache_enabled /\ ~backendOk]
  /\ pres' = [pres EXCEPT ![t] = Value(pinfo[t][1])]
  /\ pinfo' = [pinfo EXCEPT ![t] = <<>>]
  /\ ppc' = [ppc EXCEPT ![t] = "done"]
  /\ cache_ops' = IF cache_enabled THEN cache_ops + 1 ELSE cache_ops
  /\ UNCHANGED <<now, blocked_until, cache_enabled, http_count, calls, pisin,
                 tripped_by>>

\* The steps of one provider call running on thread t.
ProvStep(t) ==
  \/ ProvCacheGet(t)
  \/ IsBlockedRead(t)
  \/ IsBlockedCompare(t)
  \/ IsBlockedClear(t)
  \/ HttpSend(t)
  \/ HttpRecv(t)
  \/ ProvCacheSet(t)

\* A caller invokes justetf_provider.search_by_isin(isin) on thread t.
ProvEnter(t, isin) ==
  /\ ppc' = [ppc EXCEPT ![t] = "cache_get"]
  /\ pisin' = [pisin EXCEPT ![t] = isin]
  /\ pres' = [pres EXCEPT ![t] = Pending]
  /\ pobs' = [pobs EXCEPT ![t] =
                [NoObs EXCEPT !.start_until = blocked_until,
                              !.elapsed_at_start = BreakerElapsed]]

\* The call has returned to its caller.
ProvLeave(t) ==
  /\ ppc' = [ppc EXCEPT ![t] = "idle"]
  /\ pisin' = [pisin EXCEPT ![t] = <<>>]
  /\ pres' = [pres EXCEPT ![t] = Pending]
  /\ pobs' = [pobs EXCEPT ![t] = NoObs]

\* Time passes.
Tick ==
  /\ now < MaxTime
  /\ now' = now + TickMinutes
  /\ UNCHANGED <<blocked_until, cache_enabled, cache, http_count, calls,
                 ppc, pisin, pinfo, pres, pobs, tripped_by, cache_ops>>

\* ------------------------------------------------------------ unchanging sources

\* What the web source sends for a product page.
Response(status, page) == [status |-> status, page |-> page]

Responses ==
  {Response("403", Page(TRUE, PyNone, PyNone, {}, PyNone)),
   Response("500", Page(TRUE, PyNone, PyNone, {}, PyNone)),
   Response("200", Page(FALSE, PyNone, NameNatoEtf, {"XETRA"}, PyNone)),
   Response("200", Page(FALSE, SymNato, NameNatoEtf, {"London Stock Exchange", "gettex"},
                        <<"USD">>))}

\* What the primary source does with an ISIN: its search finds a priced
\* instrument, raises, or finds nothing usable in any stage.
PrimaryAnswers == {"record", "raises", "nothing"}

\* The sources, each answering the same way whenever it is asked.
Envs == [web : [ProvIsins -> Responses], primary : [ProvIsins -> PrimaryAnswers]]

\* JustETFProvider.search_by_isin run from entry to return with no other call
\* in between (lines 140-201): the outcome, the cache and the breaker field
\* afterwards, the requests issued, and whether the cache or the open
\* breaker answered.
Lookup(enabled, store, until, n, isin, resp, readOk, writeOk) ==
  LET cached == cache_get(enabled, store, isin, readOk)
      same == [out |-> Absent, store |-> store, until |-> until, http |-> 0,
               hit |-> FALSE, blocked |-> FALSE]
  IN
  IF cached # <<>> THEN [same EXCEPT !.out = Value(cached[1]), !.hit = TRUE]
  ELSE IF until # <<>> /\ StillBlocked(n, until[1]) THEN [same EXCEPT !.blocked = TRUE]
  ELSE IF resp.status = "403"
    THEN [same EXCEPT !.until = <<TripUntil(n)>>, !.http = 1]
  ELSE IF resp.status # "200" \/ resp.page.parse_error \/ resp.page.ticker = PyNone
    THEN [same EXCEPT !.until = <<>>, !.http = 1]
  ELSE [same EXCEPT !.out = Value(ScrapedInfo(resp.page)),
                    !.store = cache_set(enabled, store, isin, ScrapedInfo(resp.page), writeOk),
                    !.until = <<>>, !.http = 1]

\* ------------------------------------------------------------ primary client

\* A price field of ticker.info: absent or None, a number (in hundredths),
\* NaN, or a value float() rejects.
PNone == [t |-> "none", v |-> 0]
PNum(n) == [t |-> "num", v |-> n]
PNaN == [t |-> "nan", v |-> 0]
PText == [t |-> "text", v |-> 0]

\* a or b, on price fields: None and 0 are falsy, NaN and text are truthy.
PriceOr(a, b) == IF a.t = "none" \/ (a.t = "num" /\ a.v = 0) THEN b ELSE a

\* Lines 173-177: price is None, float(price) raises (caught at line 206),
\* it is NaN, or it is <= 0.
PriceInvalid(price) == price.t # "num" \/ price.v <= 0

Info(rmp, cp, longName, shortName, quoteType, exchange, currency) ==
  [regularMarketPrice |-> rmp, currentPrice |-> cp, longName |-> longName,
   shortName |-> shortName, quoteType |-> quoteType, exchange |-> exchange,
   currency |-> currency]

\* The ticker.info dicts the primary client may answer a probe with.
Infos ==
  {Info(PNone, PNone, Missing, Missing, Missing, Missing, Missing),
   Info(PNum(0), PNone, NameNatoEtf, Missing, Missing, Missing, Missing),
   Info(PNaN, PNum(500), NameNatoEtf, Missing, Missing, Missing, Missing),
   Info(PText, PNone, NameNatoEtf, Missing, Missing, Missing, Missing),
   Info(PNum(-100), PNone, NameNatoEtf, Missing, Missing, Missing, Missing),
   Info(PNum(0), PNum(500), NameNatoEtf, Missing, <<"ETF">>, <<"LSE">>, <<"USD">>),
   Info(PNum(500), PNone, Missing, Missing, Missing, Missing, Missing),
   Info(PNum(500), PNone, <<>>, NameEtf, <<"EQUITY">>, <<>>, <<"GBP">>),
   Info(PNum(500), PNone, PyNone, NameEtf, <<"ETF">>, PyNone, Missing),
   Info(PNum(500), PNone, Missing, PyNone, Missing, Missing, Missing),
   Info(PNum(500), PNone, NameNatoEtf, Missing, <<"ETF">>, Missing, PyNone)}

\* What a probe may read: when yf.Ticker or ticker.info raises there is no
\* dict to read.
ProbeAnswers(raises) ==
  IF raises THEN {Info(PNone, PNone, Missing, Missing, Missing, Missing, Missing)}
  ELSE Infos

\* dict.get(key, default) on a field that may be missing
Get(field, default) == IF field = Missing THEN default ELSE field

\* dict.get(key): None when the key is missing
GetOrNone(field) == Get(field, PyNone)

Quote(symbol, shortname, longname) ==
  [symbol |-> symbol, shortname |-> shortname, longname |-> longname]

NoQuote == Quote(Missing, Missing, Missing)

\* EXCHANGE_MAP
EXCHANGE_MAP ==
  << <<<<"L">>, "London Stock Exchange">>,
     <<<<"D","E">>, "Deutsche Boerse">>,
     <<<<"P","A">>, "Euronext Paris">>,
     <<<<"A","S">>, "Euronext Amsterdam">>,
     <<<<"B","R">>, "Euronext Brussels">>,
     <<<<"M","I">>, "Borsa Italiana">>,
     <<<<"M","C">>, "Bolsa de Madrid">>,
     <<<<"S","W">>, "SIX Swiss Exchange">>,
     <<<<"T","O">>, "Toronto Stock Exchange">>,
     <<<<"V">>, "TSX Venture Exchange">>,
     <<<<"A","X">>, "Australian Securities Exchange">>,
     <<<<"H","K">>, "Hong Kong Stock Exchange">>,
     <<<<"T">>, "Tokyo Stock Exchange">>,
     <<<<"S","S">>, "Shanghai Stock Exchange">>,
     <<<<"S","Z">>, "Shenzhen Stock Exchange">> >>

\* The suffixes with London tried before Germany.
FALLBACK_SUFFIXES_LondonFirst ==
  << <<".","L">>, <<".","D","E">>, <<".","P","A">>, <<".","A","S">>,
     <<".","M","I">>, <<".","S","W">>, <<".","M","C">>, <<".","B","R">>,
     <<>>, <<".","T","O">>, <<".","A","X">>, <<".","H","K">>, <<".","T">> >>

\* FALLBACK_SUFFIXES
FALLBACK_SUFFIXES ==
  << <<".","D","E">>, <<".","L">>, <<".","P","A">>, <<".","A","S">>,
     <<".","M","I">>, <<".","S","W">>, <<".","M","C">>, <<".","B","R">>,
     <<>>, <<".","T","O">>, <<".","A","X">>, <<".","H","K">>, <<".","T">> >>

\* _extract_exchange
extract_exchange_name(symbol, info) ==
  LET exchange == Get(info.exchange, <<>>)
      suffix == SplitLast(symbol)
      hits == {i \in 1..Len(EXCHANGE_MAP) : EXCHANGE_MAP[i][1] = suffix} IN
  IF Truthy(exchange) THEN exchange
  ELSE IF DotPositions(symbol) # {}
    THEN IF hits = {} THEN suffix ELSE <<EXCHANGE_MAP[MinOf(hits)][2]>>
  ELSE <<"NYSE/NASDAQ">>

InstrumentResponse(isin, symbol, name, type, currency, exchange) ==
  [isin |-> isin, symbol |-> symbol, name |-> name, type |-> type,
   currency |-> currency, exchange |-> exchange]

\* pydantic validation of InstrumentResponse: every field is a str.
IsValidResponse(r) == r.name # PyNone /\ r.currency # PyNone /\ r.exchange # PyNone

\* Lines 179-185: the symbol echoes the ISIN and no long name is reported.
IsGhost(isin, symbol, info) ==
  SplitFirst(symbol) = isin /\ ~Truthy(GetOrNone(info.longName))

\* Lines 173-177 and 179-185: the probe has a usable price and is no ghost.
ProbeValid(isin, symbol, info) ==
  /\ ~PriceInvalid(PriceOr(info.regularMarketPrice, info.currentPrice))
  /\ ~IsGhost(isin, symbol, info)

\* ProbeRecord carrying the upper-case form of the queried identifier.
ProbeRecordUpperIsin(isin, symbol, qt, info) ==
  InstrumentResponse(
    Upper(isin), symbol,
    Get(info.longName, Get(info.shortName, Get(qt.shortname, symbol))),
    IF Get(info.quoteType, <<"EQUITY">>) = <<"ETF">> THEN "etf" ELSE "stock",
    Get(info.currency, <<"USD">>),
    extract_exchange_name(symbol, info))

\* Lines 187-204: the record built from a valid probe.
ProbeRecord(isin, symbol, qt, info) ==
  InstrumentResponse(
    isin, symbol,
    Get(info.longName, Get(info.shortName, Get(qt.shortname, symbol))),
    IF Get(info.quoteType, <<"EQUITY">>) = <<"ETF">> THEN "etf" ELSE "stock",
    Get(info.currency, <<"USD">>),
    extract_exchange_name(symbol, info))

\* _try_get_instrument_info: <<record>> or <<>> (None).  `raises` is yf.Ticker
\* or ticker.info raising; every exception, that of the response model's
\* validation included, is caught at line 206.
try_get_instrument_info(isin, symbol, qt, raises, info) ==
  IF raises THEN <<>>
  ELSE IF ~ProbeValid(isin, symbol, info) THEN <<>>
  ELSE IF ~IsValidResponse(ProbeRecord(isin, symbol, qt, info)) THEN <<>>
  ELSE <<ProbeRecord(isin, symbol, qt, info)>>

\* ------------------------------------------------------------ name cleaning

\* str.startswith, at position i
MatchesAt(s, term, i) ==
  i + Len(term) - 1 <= Len(s) /\ SubSeq(s, i, i + Len(term) - 1) = term

\* s.replace(term, ""), from position i on
RECURSIVE RemoveFrom(_, _, _)
RemoveFrom(s, term, i) ==
  IF i > Len(s) THEN <<>>
  ELSE IF MatchesAt(s, term, i) THEN RemoveFrom(s, term, i + Len(term))
  ELSE <<s[i]>> \o RemoveFrom(s, term, i + 1)

\* str.strip()
RECURSIVE Strip(_)
Strip(s) ==
  IF s = <<>> THEN s
  ELSE IF s[1] = " " THEN Strip(Tail(s))
  ELSE IF s[Len(s)] = " " THEN Strip(SubSeq(s, 1, Len(s) - 1))
  ELSE s

\* remove_terms, lines 226-242
REMOVE_TERMS ==
  << <<"U","C","I","T","S">>, <<"E","T","F">>, <<"A","c","c">>,
     <<"D","i","s","t">>, <<"C","l","a","s","s">>, <<"U","S","D">>,
     <<"E","U","R">>, <<"G","B","P">>, <<"H","A","N","e","t","f">>,
     <<"i","S","h","a","r","e","s">>, <<"V","a","n","g","u","a","r","d">>,
     <<"A","m","u","n","d","i">>, <<"I","n","v","e","s","c","o">>,
     <<"X","t","r","a","c","k","e","r","s">>, <<"S","P","D","R">> >>

RECURSIVE RemoveTerms(_, _)
RemoveTerms(s, k) ==
  IF k > Len(REMOVE_TERMS) THEN s
  ELSE RemoveTerms(RemoveFrom(s, REMOVE_TERMS[k], 1), k + 1)

\* len(search_query) < 4 reverts to the original name
MIN_QUERY_LEN == 4

\* Lines 244-251: the query of the name-based search.
search_query(name) ==
  LET cleaned == Strip(RemoveTerms(name, 1)) IN
  IF Len(cleaned) < MIN_QUERY_LEN THEN name ELSE cleaned

\* ------------------------------------------------------------ resolution engine

\* The thread search_by_isin runs on.
EngineThread == "t1"

\* The stage (section 4.4 of the design) a collaborator call belongs to.
StageOf(step) ==
  CASE step = "primary_search" -> 2
    [] step = "primary_probe" -> 3
    [] step = "sweep" -> 4
    [] step \in {"name_search", "name_probe"} -> 5
    [] OTHER -> 6

\* A log entry: the call, its argument, and whether it yielded something: a
\* probe a record, a search a candidate to probe.
Called(step, arg, ok) == [step |-> step, arg |-> arg, ok |-> ok]

\* A candidate of a probe loop: the symbol and the quote dict passed along.
Cand(symbol, qt) == [symbol |-> symbol, qt |-> qt]

\* Lines 122-125: base_symbol with every suffix, the original symbol skipped.
RECURSIVE SuffixCandidates(_, _, _, _)
SuffixCandidates(base, skip, qt, k) ==
  IF k > Len(FALLBACK_SUFFIXES) THEN <<>>
  ELSE (IF base \o FALLBACK_SUFFIXES[k] = skip
          THEN <<>> ELSE <<Cand(base \o FALLBACK_SUFFIXES[k], qt)>>)
       \o SuffixCandidates(base, skip, qt, k + 1)

\* search_result.quotes[:3]
TOP_RESULTS == 3

\* NameCandidates without the [:3] of line 260: every result is a candidate.
RECURSIVE NameCandidatesUncapped(_, _, _)
NameCandidatesUncapped(isin, quotes, k) ==
  IF k > Len(quotes) THEN <<>>
  ELSE (IF ~Truthy(GetOrNone(quotes[k].symbol)) \/ Contains(isin, quotes[k].symbol)
          THEN <<>> ELSE <<Cand(quotes[k].symbol, quotes[k])>>)
       \o NameCandidatesUncapped(isin, quotes, k + 1)

\* NameCandidates without the check of lines 266-267: a symbol containing
\* the isin is probed like any other.
RECURSIVE NameCandidatesUnfiltered(_, _, _)
NameCandidatesUnfiltered(isin, quotes, k) ==
  IF k > Len(quotes) \/ k > TOP_RESULTS THEN <<>>
  ELSE (IF ~Truthy(GetOrNone(quotes[k].symbol))
          THEN <<>> ELSE <<Cand(quotes[k].symbol, quotes[k])>>)
       \o NameCandidatesUnfiltered(isin, quotes, k + 1)

\* Lines 260-267: the first three results, those without a symbol or whose
\* symbol contains the isin skipped.
RECURSIVE NameCandidates(_, _, _)
NameCandidates(isin, quotes, k) ==
  IF k > Len(quotes) \/ k > TOP_RESULTS THEN <<>>
  ELSE (IF ~Truthy(GetOrNone(quotes[k].symbol)) \/ Contains(isin, quotes[k].symbol)
          THEN <<>> ELSE <<Cand(quotes[k].symbol, quotes[k])>>)
       \o NameCandidates(isin, quotes, k + 1)

\* Line 137: quote.get("shortname") or quote.get("longname")
raw_name(qt) == OrElse(GetOrNone(qt.shortname), GetOrNone(qt.longname))

\* RawSuggestion built from the base ticker instead of the suggested symbol.
RawSuggestionBaseTicker(isin, info) ==
  InstrumentResponse(isin, SplitFirst(info.symbol), info.name, "etf", info.currency,
                     info.exchange)

\* Lines 342-349: the provider's suggestion returned as it is.
RawSuggestion(isin, info) ==
  InstrumentResponse(isin, info.symbol, info.name, "etf", info.currency, info.exchange)

\* The first quotes the initial search may return.
FirstQuotes ==
  {Quote(Missing, NameEtf, Missing),
   Quote(<<>>, Missing, Missing),
   Quote(IsinU, Missing, Missing),
   Quote(IsinU, NameEtf, Missing),
   Quote(SymIsinSG, PyNone, NameNatoEtf),
   Quote(SymNatoL, Missing, Missing),
   Quote(SymNatoL, NameNatoEtf, Missing),
   Quote(SymNato, <<>>, NameEtf)}

\* The results a name search may return.
NameQuotes == {Quote(Missing, NameEtf, Missing), Quote(SymIsinSG, Missing, Missing),
               Quote(SymNatoL, PyNone, Missing)}

RECURSIVE SeqsUpTo(_, _)
SeqsUpTo(S, n) ==
  IF n = 0 THEN {<<>>}
  ELSE SeqsUpTo(S, n - 1) \cup
       {Append(x, e) : x \in {y \in SeqsUpTo(S, n - 1) : Len(y) = n - 1}, e \in S}

NameQuoteLists == SeqsUpTo(NameQuotes, MaxQuotes)

\* The queries search_by_isin is called with.
Queries == {IsinU, IsinL, NotAnIsin, <<>>}

\* The exceptions the primary client raises.
Errors == {"ConnectionError", "Timeout"}

\* What the last step saw raised: the kind of call and the exception text.
Raise(kind, e) == [kind |-> kind, err |-> e]
NoRaise == Raise("", "")
RaiseIf(raises, kind) == IF raises THEN Raise(kind, "Exception") ELSE NoRaise

\* Where a step goes next, and with which candidates.
Goto(pc, cs) == [epc |-> pc, cands |-> cs]

\* AfterSweep without the name-based search: the secondary provider comes
\* right after the sweep.
AfterSweepSkipsName(qt) == Goto("fallback", <<>>)

\* Lines 135-148: after the sweep (or its skip), the name-based search when
\* the first quote carries a name, else the secondary provider.
AfterSweep(qt) ==
  IF Truthy(raw_name(qt)) THEN Goto("name_search", <<>>) ELSE Goto("fallback", <<>>)

\* AfterPrimaryProbe without the comparison of line 110: the sweep always
\* runs.
AfterPrimaryProbeAlwaysSweeps(isin, qt) ==
  Goto("sweep", SuffixCandidates(RsplitBase(qt.symbol), qt.symbol, qt, 1))

\* Lines 107-133: after the primary probe failed, the suffix sweep unless the
\* base symbol is the isin itself.
AfterPrimaryProbe(isin, qt) ==
  IF RsplitBase(qt.symbol) = isin THEN AfterSweep(qt)
  ELSE Goto("sweep", SuffixCandidates(RsplitBase(qt.symbol), qt.symbol, qt, 1))

\* AfterDirectProbe without the cross-pollination loop: the name-based search
\* comes right after the direct probe.
AfterDirectProbeSkipsCross(info) == Goto("fb_name_search", <<>>)

\* Lines 305-321: after the direct probe of the suggestion failed, its ticker
\* with every suffix.
AfterDirectProbe(info) ==
  Goto("cross", SuffixCandidates(SplitFirst(info.symbol), info.symbol,
                                 Quote(Missing, info.name, Missing), 1))

\* Which step follows a probe loop that found nothing ("raw": lines 342-349).
AfterLoop(step, qt) ==
  CASE step = "sweep" -> AfterSweep(qt)
    [] step = "name_probe" -> Goto("fallback", <<>>)
    [] step = "cross" -> Goto("fb_name_search", <<>>)
    [] OTHER -> Goto("raw", <<>>)

\* AfterProbe without the early return: the loop runs to its end whatever a
\* probe found.
AfterProbeKeepsGoing(step, res, rest, qt) ==
  IF rest # <<>> THEN Goto(step, rest)
  ELSE IF res # <<>> THEN Goto("done", <<>>)
  ELSE AfterLoop(step, qt)

\* `if result: return result` inside a loop: a record ends the search, else
\* the loop goes on with the remaining candidates, else the next step.
AfterProbe(step, res, rest, qt) ==
  IF res # <<>> THEN Goto("done", <<>>)
  ELSE IF rest # <<>> THEN Goto(step, rest)
  ELSE AfterLoop(step, qt)

\* What search_by_isin has returned once a step led to `nxt` with probe
\* result `res`: the record, the raw suggestion, or nothing yet.
OutcomeAfter(nxt, res, isin, info, old) ==
  IF res # <<>> THEN Value(res[1])
  ELSE IF nxt.epc = "raw" THEN Value(RawSuggestion(isin, info[1]))
  ELSE old

PcAfter(nxt) == IF nxt.epc = "raw" THEN "done" ELSE nxt.epc

\* OnSearchError with the exception swallowed: the search answers None.
OnSearchErrorSwallowed(e) == Absent

\* Lines 150-152: an exception of the initial search is logged and re-raised.
OnSearchError(e) == Raised(e)

\* OnProviderResult without the except clause of lines 351-353: the
\* provider's exception leaves search_by_isin.
OnProviderResultPropagates(res) ==
  IF res.kind = "value" THEN [epc |-> "fb_probe", outcome |-> Pending, tinfo |-> res.val]
  ELSE IF res.kind = "raise" THEN [epc |-> "done", outcome |-> Raised(res.err), tinfo |-> <<>>]
  ELSE [epc |-> "done", outcome |-> Absent, tinfo |-> <<>>]

\* Lines 291-293 and 351-353: what _try_justetf_fallback does with the
\* provider's answer: nothing, or an exception (caught), ends the search with
\* None; a TickerInfo is probed next.
OnProviderResult(res) ==
  IF res.kind = "value" THEN [epc |-> "fb_probe", outcome |-> Pending, tinfo |-> res.val]
  ELSE [epc |-> "done", outcome |-> Absent, tinfo |-> <<>>]

\* Call without the format check of lines 80-82: every input goes on to the
\* primary search.
CallUnchecked ==
  /\ epc = "idle"
  /\ \E i \in Queries :
       /\ q' = i
       /\ epc' = "primary_search" /\ outcome' = Pending
  /\ UNCHANGED <<quote, cands, tinfo, log, raised, provVars, batchVars, auxVars>>

\* search_by_isin is called; lines 80-82 reject a malformed isin at once.
Call ==
  /\ epc = "idle"
  /\ \E i \in Queries :
       /\ q' = i
       /\ IF is_valid_isin(i)
            THEN epc' = "primary_search" /\ outcome' = Pending
            ELSE epc' = "done" /\ outcome' = Absent
  /\ UNCHANGED <<quote, cands, tinfo, log, raised, provVars, batchVars, auxVars>>

\* The search going on to the probe whatever it returned.
AfterPrimarySearchAlwaysProbes(usable) == "primary_probe"

\* Lines 88-99: without results, or without a symbol in the first one, the
\* search hands over to the secondary fallback.
AfterPrimarySearch(usable) == IF usable THEN "primary_probe" ELSE "fallback"

\* Lines 86-99: yf.Search(isin).  The log entry tells whether the first
\* result carries a symbol.
PrimarySearch ==
  /\ epc = "primary_search"
  /\ \/ \E e \in Errors :
          /\ log' = Append(log, Called("primary_search", q, FALSE))
          /\ outcome' = OnSearchError(e)
          /\ epc' = IF OnSearchError(e).kind = "raise" THEN "done" ELSE "fallback"
          /\ raised' = Raise("primary_search", e)
          /\ UNCHANGED <<quote, cands>>
     \/ \E qt \in FirstQuotes : \E empty \in BOOLEAN :
          \E usable \in {~empty /\ Truthy(Get(qt.symbol, <<>>))} :
          /\ log' = Append(log, Called("primary_search", q, usable))
          /\ epc' = AfterPrimarySearch(usable)
          /\ quote' = IF usable THEN qt ELSE NoQuote
          /\ raised' = NoRaise
          /\ UNCHANGED <<outcome, cands>>
  /\ UNCHANGED <<q, tinfo, provVars, batchVars, auxVars>>

\* Lines 102-105: the probe of the symbol the search returned.
PrimaryProbe ==
  /\ epc = "primary_probe"
  /\ \E raises \in BOOLEAN : \E info \in ProbeAnswers(raises) :
       \E res \in {try_get_instrument_info(q, quote.symbol, quote, raises, info)} :
       \E nxt \in {IF res # <<>> THEN Goto("done", <<>>) ELSE AfterPrimaryProbe(q, quote)} :
       /\ log' = Append(log, Called("primary_probe", quote.symbol, res # <<>>))
       /\ outcome' = OutcomeAfter(nxt, res, q, tinfo, outcome)
       /\ epc' = PcAfter(nxt)
       /\ cands' = nxt.cands
       /\ raised' = RaiseIf(raises, "probe")
  /\ UNCHANGED <<q, quote, tinfo, provVars, batchVars, auxVars>>

\* One iteration of a probe loop: the suffix sweep (lines 122-133), the name
\* search's results (lines 260-272), the cross-pollination (lines 314-326).
LoopProbe ==
  /\ epc \in {"sweep", "name_probe", "cross", "fb_name_probe"}
  /\ \E raises \in BOOLEAN : \E info \in ProbeAnswers(raises) :
       \E res \in {try_get_instrument_info(q, Head(cands).symbol, Head(cands).qt,
                                            raises, info)} :
       \E nxt \in {AfterProbe(epc, res, Tail(cands), quote)} :
       /\ log' = Append(log, Called(epc, Head(cands).symbol, res # <<>>))
       /\ outcome' = OutcomeAfter(nxt, res, q, tinfo, outcome)
       /\ epc' = PcAfter(nxt)
       /\ cands' = nxt.cands
       /\ raised' = RaiseIf(raises, "probe")
  /\ UNCHANGED <<q, quote, tinfo, provVars, batchVars, auxVars>>

\* _try_search_by_name_fallback up to its loop (lines 221-257): the search by
\* the cleaned name.  An exception is caught at line 275.  The log entry
\* tells whether the search left a candidate to probe.
NameSearchWith(raises, quotes) ==
  /\ epc \in {"name_search", "fb_name_search"}
  /\ LET name == IF epc = "name_search" THEN raw_name(quote) ELSE tinfo[1].name
         loop == IF epc = "name_search" THEN "name_probe" ELSE "fb_name_probe" IN
     \E cs \in {IF raises THEN <<>> ELSE NameCandidates(q, quotes, 1)} :
     \E nxt \in {IF cs # <<>> THEN Goto(loop, cs) ELSE AfterLoop(loop, quote)} :
       /\ log' = Append(log, Called(epc, search_query(name), cs # <<>>))
       /\ outcome' = OutcomeAfter(nxt, <<>>, q, tinfo, outcome)
       /\ epc' = PcAfter(nxt)
       /\ cands' = nxt.cands
       /\ raised' = RaiseIf(raises, "name_search")
  /\ UNCHANGED <<q, quote, tinfo, provVars, batchVars>>

NameSearch ==
  /\ \E raises \in BOOLEAN : \E quotes \in (IF raises THEN {<<>>} ELSE NameQuoteLists) :
       NameSearchWith(raises, quotes)
  /\ UNCHANGED auxVars

\* _try_justetf_fallback, line 291: the provider is called.
FallbackCall ==
  /\ epc = "fallback"
  /\ ppc[EngineThread] = "idle"
  /\ ProvEnter(EngineThread, q)
  /\ epc' = "in_provider"
  /\ log' = Append(log, Called("provider", q, FALSE))
  /\ raised' = NoRaise
  /\ quote' = NoQuote
  /\ UNCHANGED <<q, cands, tinfo, outcome>>
  /\ UNCHANGED <<now, blocked_until, cache_enabled, cache, http_count, calls, pinfo,
                 tripped_by, cache_ops>>
  /\ UNCHANGED <<batchVars, auxVars>>

\* The provider has returned to _try_justetf_fallback.
FallbackReturn ==
  /\ epc = "in_provider"
  /\ ppc[EngineThread] = "done"
  /\ \E nxt \in {OnProviderResult(pres[EngineThread])} :
       /\ epc' = nxt.epc
       /\ outcome' = IF nxt.outcome = Pending THEN outcome ELSE nxt.outcome
       /\ tinfo' = nxt.tinfo
  /\ raised' = RaiseIf(pres[EngineThread].kind = "raise", "provider")
  /\ ProvLeave(EngineThread)
  /\ UNCHANGED <<q, quote, cands, log>>
  /\ UNCHANGED <<now, blocked_until, cache_enabled, cache, http_count, calls, pinfo,
                 tripped_by, cache_ops>>
  /\ UNCHANGED <<batchVars, auxVars>>

\* Lines 296-303: the probe of the symbol the provider suggested.
DirectProbe ==
  /\ epc = "fb_probe"
  /\ \E raises \in BOOLEAN : \E info \in ProbeAnswers(raises) :
       \E res \in {try_get_instrument_info(q, tinfo[1].symbol,
                       Quote(Missing, tinfo[1].name, Missing), raises, info)} :
       \E nxt \in {IF res # <<>> THEN Goto("done", <<>>) ELSE AfterDirectProbe(tinfo[1])} :
       /\ log' = Append(log, Called("fb_probe", tinfo[1].symbol, res # <<>>))
       /\ outcome' = OutcomeAfter(nxt, res, q, tinfo, outcome)
       /\ epc' = PcAfter(nxt)
       /\ cands' = nxt.cands
       /\ raised' = RaiseIf(raises, "probe")
  /\ UNCHANGED <<q, quote, tinfo, provVars, batchVars, auxVars>>

\* The provider call of the engine runs on.
EngineProvStep ==
  /\ epc = "in_provider"
  /\ ProvStep(EngineThread)
  /\ UNCHANGED <<engVars, batchVars, auxVars>>

\* Meanwhile another thread's lookup finds the breaker elapsed and clears it
\* (line 131).
OtherThreadClears ==
  /\ epc = "in_provider"
  /\ blocked_until # <<>>
  /\ blocked_until' = <<>>
  /\ UNCHANGED <<now, cache_enabled, cache, http_count, calls, ppc, pisin, pinfo,
                 pres, pobs, tripped_by, cache_ops>>
  /\ UNCHANGED <<engVars, batchVars, auxVars>>

\* ------------------------------------------------- batch operations

BatchOps == {"search", "quotes"}

\* The keys a batch is made of: isins for a search, symbols for quotes.
BatchKeys(op) == IF op = "search" THEN {IsinU, NotAnIsin} ELSE {SymNato, SymIsinSG}

QuoteResponse(symbol, price, currency, time) ==
  [symbol |-> symbol, price |-> price, currency |-> currency, time |-> time]

\* What the operation run by asyncio.to_thread may do for one key: return a
\* record, return None, or raise (str(e) may be empty).
OpOutcomes(op, key) ==
  IF op = "search"
    THEN IF is_valid_isin(key)
           THEN {Value(InstrumentResponse(key, SymNato, NameNatoEtf, "etf",
                                          <<"EUR">>, <<"LSE">>)),
                 Absent} \cup {Raised(e) : e \in Errors}
           ELSE {Absent}
    ELSE {Value(QuoteResponse(key, "12.3400", <<"USD">>, "t")), Absent}
           \cup {Raised(e) : e \in Errors \cup {""}}

\* The (key, result, error) triple of a wrapper; <<>> stands for None.
Triple(key, result, error) == [key |-> key, result |-> result, error |-> error]

\* search_single_wrapper dropping the not-found message: None comes back as
\* (isin, None, None).
search_single_wrapper_silent(isin, out) ==
  IF out.kind = "raise" THEN Triple(isin, <<>>, <<out.err>>)
  ELSE IF out.kind = "absent" THEN Triple(isin, <<>>, <<>>)
  ELSE Triple(isin, out.val, <<>>)

\* What gather receives from a wrapper that let its operation's exception
\* out.
Uncaught(e) == Triple(<<"Uncaught">>, <<>>, <<e>>)

\* search_single_wrapper without the except clause of lines 456-459.
search_single_wrapper_uncaught(isin, out) ==
  IF out.kind = "raise" THEN Uncaught(out.err)
  ELSE IF out.kind = "absent" THEN Triple(isin, <<>>, <<"No instrument found for ISIN">>)
  ELSE Triple(isin, out.val, <<>>)

\* Lines 447-459.
search_single_wrapper(isin, out) ==
  IF out.kind = "raise" THEN Triple(isin, <<>>, <<out.err>>)
  ELSE IF out.kind = "absent" THEN Triple(isin, <<>>, <<"No instrument found for ISIN">>)
  ELSE Triple(isin, out.val, <<>>)

\* Lines 486-496.
get_quote_wrapper(symbol, out) ==
  IF out.kind = "raise" THEN Triple(symbol, <<>>, <<out.err>>)
  ELSE IF out.kind = "absent" THEN Triple(symbol, <<>>, <<"No quote data available">>)
  ELSE Triple(symbol, out.val, <<>>)

\* A gather handing the triples over in the order in which the operations
\* ended (fin) instead of the order of the inputs.
GatheredAsCompleted(op, keys, outs) ==
  [k \in 1..Len(keys) |->
     IF op = "search" THEN search_single_wrapper(keys[fin[k]], outs[fin[k]])
     ELSE get_quote_wrapper(keys[fin[k]], outs[fin[k]])]

\* asyncio.gather: the wrappers' triples in the order of the inputs.
Gathered(op, keys, outs) ==
  [i \in 1..Len(keys) |->
     IF op = "search" THEN search_single_wrapper(keys[i], outs[i])
     ELSE get_quote_wrapper(keys[i], outs[i])]

\* asyncio.gather re-raises the first exception that left a wrapper.
GatherRaises(triples) == \E k \in 1..Len(triples) : triples[k].key = Uncaught("").key

\* Lines 463-467 and 501-505: the loop over the gathered triples, from the
\* k-th on.
RECURSIVE Collect(_, _, _, _)
Collect(triples, k, res, errs) ==
  IF k > Len(triples) THEN [results |-> res, errors |-> errs]
  ELSE IF triples[k].result # <<>>
    THEN Collect(triples, k + 1, Append(res, triples[k].result[1]), errs)
  ELSE IF triples[k].error # <<>>
    THEN Collect(triples, k + 1, res, Append(errs, <<triples[k].key, triples[k].error[1]>>))
  ELSE Collect(triples, k + 1, res, errs)

InitBatch ==
  /\ bpc = "idle"
  /\ bop = "search"
  /\ items = <<>>
  /\ opres = <<>>
  /\ results = <<>>
  /\ errors = <<>>

\* The metadata cache as its users see it: whether __init__ has run, the
\* connectivity probes made, the last direct call (its key, whether the
\* backend answered it, what it returned), what was last stored under each
\* key, and whether a set changed the backend's data while the cache was
\* disabled.
CacheClient(constructed, stored) ==
  [constructed |-> constructed, probes |-> IF constructed THEN 1 ELSE 0,
   op |-> "none", key |-> <<>>, ok |-> TRUE, res |-> Pending,
   last_set |-> stored, wrote_disabled |-> FALSE]

NothingStored == [i \in ProvIsins |-> <<>>]

InitCacheClient == cdir = CacheClient(TRUE, NothingStored)

InitQuote ==
  /\ gstack = <<>>
  /\ gout = Pending
  /\ gstat = [pc |-> "idle", engine_runs |-> 0, quote_calls |-> 0]

InitFun ==
  /\ fin = <<>>
  /\ fout = <<>>

InitTwin == twin = <<>> /\ env = <<>>

InitEngine ==
  /\ epc = "idle"
  /\ q = <<>>
  /\ quote = NoQuote
  /\ cands = <<>>
  /\ tinfo = <<>>
  /\ outcome = Pending
  /\ log = <<>>
  /\ raised = NoRaise
  /\ InitBatch

\* The cache with nothing stored.
EmptyCache == [i \in ProvIsins \cup Queries |-> <<>>]

\* One search_by_isin call.  Earlier lookups may have left a result in the
\* cache and the breaker tripped.
Init ==
  /\ InitEngine
  /\ InitCacheClient
  /\ InitQuote
  /\ InitFun
  /\ InitTwin
  /\ now = TickMinutes
  /\ blocked_until \in {<<>>, <<TripUntil(0)>>}
  /\ cache_enabled \in BOOLEAN
  /\ cache = cache_set(cache_enabled, EmptyCache, IsinU,
                       ScrapedInfo(Page(FALSE, SymNato, PyNone, {}, PyNone)), TRUE)
  /\ http_count = 0
  /\ calls = 0
  /\ ppc = [t \in Threads |-> "idle"]
  /\ pisin = [t \in Threads |-> <<>>]
  /\ pinfo = [t \in Threads |-> <<>>]
  /\ pres = [t \in Threads |-> Pending]
  /\ pobs = [t \in Threads |-> NoObs]
  /\ tripped_by = <<>>
  /\ cache_ops = 0

Next ==
  \/ Call
  \/ PrimarySearch
  \/ PrimaryProbe
  \/ LoopProbe
  \/ NameSearch
  \/ FallbackCall
  \/ FallbackReturn
  \/ DirectProbe
  \/ EngineProvStep
  \/ OtherThreadClears

Spec == Init /\ [][Next]_vars

\* ------------------------------------------------- properties of search_by_isin

LastCall == log[Len(log)]

IsProbe(step) ==
  step \in {"primary_probe", "sweep", "name_probe", "fb_probe", "cross", "fb_name_probe"}

\* C1: search_by_isin on an input that is_valid_isin rejects returns absent
\* and has made no primary search, no probe, no provider call (the log is
\* empty, the provider idle), no HTTP request and no cache operation.
C1_InvalidInputNoIO ==
  (epc # "idle" /\ ~is_valid_isin(q)) =>
    /\ epc = "done"
    /\ outcome = Absent
    /\ log = <<>>
    /\ ppc[EngineThread] = "idle"
    /\ http_count = 0
    /\ cache_ops = 0

\* A malformed input was given and the call is over.
C1_Witness == epc = "done" /\ q = NotAnIsin /\ outcome = Absent

\* C2: when the initial search returned a first candidate with a symbol, the
\* primary probe of that symbol is the first call after the search, the
\* stages of the calls never decrease (primary probe, sweep, name search,
\* provider fallback), and a probe that yields a record is the last call:
\* search_by_isin returns that probe's record.
C2_StagesInOrder ==
  (Len(log) >= 1 /\ log[1].ok) =>
    /\ Len(log) = 1 => (epc = "primary_probe" /\ Truthy(quote.symbol))
    /\ Len(log) >= 2 => log[2].step = "primary_probe"
    /\ (Len(log) >= 2 /\ quote # NoQuote) => log[2].arg = quote.symbol
    /\ epc = "primary_probe" => log[1].arg = q
    /\ \A i \in 2..Len(log) : \A j \in 2..Len(log) :
         i < j => (StageOf(log[i].step) <= StageOf(log[j].step)
                   /\ log[j].step # "primary_probe")
    /\ \A i \in 2..Len(log) :
         (IsProbe(log[i].step) /\ log[i].ok) =>
           /\ i = Len(log)
           /\ epc = "done"
           /\ outcome.kind = "value"
           /\ outcome.val[1].symbol = log[i].arg
           /\ outcome.val[1].isin = q

\* The primary probe and the sweep failed, the name search ran, and one of
\* its results probed valid: the call returned without reaching the provider.
C2_Witness ==
  /\ epc = "done"
  /\ Len(log) >= 5
  /\ log[1].ok
  /\ \E i \in 1..Len(log) : log[i].step = "sweep"
  /\ LastCall.step = "name_probe"
  /\ LastCall.ok

\* C3: when the primary client raises during the initial search, the call
\* ends there: the same error reaches the caller, nothing is returned and no
\* other call was made.
C3_InitialSearchErrorPropagates ==
  raised.kind = "primary_search" =>
    /\ epc = "done"
    /\ outcome = Raised(raised.err)
    /\ Len(log) = 1
    /\ ppc[EngineThread] = "idle"
    /\ http_count = 0

\* The initial search failed with a time-out.
C3_Witness == raised = Raise("primary_search", "Timeout") /\ epc = "done"

\* C4: an error leaves search_by_isin only when the initial search raised it.
\* An exception of a probe, of a name search or of the provider makes that
\* call unsuccessful, and the search goes on or ends with absent (or, past
\* the provider's suggestion, with the raw suggestion).
C4_OnlyInitialSearchErrorEscapes ==
  /\ outcome.kind = "raise" =>
       (raised.kind = "primary_search" /\ Len(log) = 1 /\ log[1].step = "primary_search")
  /\ raised.kind \in {"probe", "name_search", "provider"} =>
       /\ outcome.kind # "raise"
       /\ ~LastCall.ok
       /\ epc = "done" =>
            \/ outcome = Absent
            \/ tinfo # <<>> /\ outcome.kind = "value"

\* The provider raised inside the fallback and the search ended with absent.
C4_Witness ==
  /\ raised.kind = "provider"
  /\ pres[EngineThread] = Pending
  /\ epc = "done"
  /\ outcome = Absent
  /\ Len(log) >= 3

\* C5: once the provider has returned a TickerInfo the search never ends
\* with absent, and when no later probe yields a record the result carries
\* the TickerInfo's symbol, name, currency and exchange, the type "etf" and
\* the queried isin.
C5_RawSuggestionReturned ==
  (tinfo # <<>> /\ epc = "done") =>
    /\ outcome.kind = "value"
    /\ ~LastCall.ok =>
         outcome.val[1] = [isin |-> q, symbol |-> tinfo[1].symbol, name |-> tinfo[1].name,
                           type |-> "etf", currency |-> tinfo[1].currency,
                           exchange |-> tinfo[1].exchange]

\* The direct probe, a cross-pollination probe and a probe of the name
\* search's results all failed after the provider suggested a symbol.
C5_Witness ==
  /\ epc = "done"
  /\ tinfo # <<>>
  /\ LastCall.step = "fb_name_probe"
  /\ ~LastCall.ok
  /\ \E i \in 1..Len(log) : log[i].step = "cross"
  /\ outcome.kind = "value"

\* ------------------------------------------------- provider, called directly

\* A batch worker thread reaches the provider with some isin.
ProvCall(t) ==
  /\ ppc[t] = "idle"
  /\ calls < MaxCalls
  /\ calls' = calls + 1
  /\ \E i \in ProvIsins : ProvEnter(t, i)
  /\ UNCHANGED <<now, blocked_until, cache_enabled, cache, http_count, pinfo,
                 tripped_by, cache_ops>>

ProvReturn(t) ==
  /\ ppc[t] = "done"
  /\ ProvLeave(t)
  /\ UNCHANGED <<now, blocked_until, cache_enabled, cache, http_count, calls,
                 pinfo, tripped_by, cache_ops>>

InitProv ==
  /\ InitEngine
  /\ InitCacheClient
  /\ InitQuote
  /\ InitFun
  /\ InitTwin
  /\ now = 0
  /\ blocked_until = <<>>
  /\ cache_enabled \in BOOLEAN
  /\ cache = EmptyCache
  /\ http_count = 0
  /\ calls = 0
  /\ ppc = [t \in Threads |-> "idle"]
  /\ pisin = [t \in Threads |-> <<>>]
  /\ pinfo = [t \in Threads |-> <<>>]
  /\ pres = [t \in Threads |-> Pending]
  /\ pobs = [t \in Threads |-> NoObs]
  /\ tripped_by = <<>>
  /\ cache_ops = 0

\* No call other than t's is in progress.
Alone(t) == \A u \in Threads \ {t} : ppc[u] = "idle"

\* Provider lookups made one after the other (a call ends before the next
\* starts), with time passing at any point.
SeqTick == Tick /\ UNCHANGED <<engVars, batchVars, auxVars>>
SeqCall == (\E t \in Threads : Alone(t) /\ ProvCall(t)) /\ UNCHANGED <<engVars, batchVars, auxVars>>
SeqStep == (\E t \in Threads : ProvStep(t)) /\ UNCHANGED <<engVars, batchVars, auxVars>>
SeqReturn == (\E t \in Threads : ProvReturn(t)) /\ UNCHANGED <<engVars, batchVars, auxVars>>

NextSeq == SeqTick \/ SeqCall \/ SeqStep \/ SeqReturn

SpecSeq == InitProv /\ [][NextSeq]_vars

\* Provider lookups made concurrently by the batch worker threads, which
\* share the provider singleton and interleave between any two steps.
RaceCall == (\E t \in Threads : ProvCall(t)) /\ UNCHANGED <<engVars, batchVars, auxVars>>

NextRace == SeqTick \/ RaceCall \/ SeqStep \/ SeqReturn

SpecRace == InitProv /\ [][NextRace]_vars

\* ------------------------------------------------- metadata cache, called directly

\* The TickerInfos stored by direct calls.
CacheInfos ==
  {ScrapedInfo(Page(FALSE, SymNato, PyNone, {}, PyNone)),
   ScrapedInfo(Page(FALSE, SymNato, NameNatoEtf, {"XETRA"}, <<"USD">>))}

\* What an earlier process lifetime may have left in the backend.
StoredBefore ==
  {NothingStored, [NothingStored EXCEPT ![IsinU] = <<ScrapedInfo(Page(FALSE, SymNato, PyNone, {}, PyNone))>>]}

\* The backend's data for what was last stored under each key.
BackendOf(stored) ==
  [i \in ProvIsins \cup Queries |->
     IF i \in ProvIsins /\ stored[i] # <<>> THEN <<to_dict(stored[i][1])>> ELSE <<>>]

\* MetadataCache.__init__, lines 38-54: one connectivity probe decides
\* `enabled`.
CacheConstruct ==
  /\ ~cdir.constructed
  /\ \E pingOk \in BOOLEAN : cache_enabled' = pingOk
  /\ cdir' = [cdir EXCEPT !.constructed = TRUE, !.probes = @ + 1]
  /\ cache_ops' = cache_ops + 1
  /\ UNCHANGED <<now, blocked_until, cache, http_count, calls, ppc, pisin, pinfo, pres,
                 pobs, tripped_by>>
  /\ UNCHANGED <<engVars, batchVars, gstack, gout, gstat, fin, fout, twin, env>>

\* metadata_cache.set(isin, info), lines 68-79.
CacheSetDirect ==
  /\ cdir.constructed
  /\ calls < MaxCalls
  /\ calls' = calls + 1
  /\ \E key \in ProvIsins : \E info \in CacheInfos : \E backendOk \in BOOLEAN :
       \E after \in {cache_set(cache_enabled, cache, key, info, backendOk)} :
       /\ cache' = after
       /\ cdir' = [cdir EXCEPT
                     !.op = "set", !.key = key, !.ok = backendOk, !.res = Absent,
                     !.last_set = IF cache_enabled /\ backendOk
                                    THEN [@ EXCEPT ![key] = <<info>>] ELSE @,
                     !.wrote_disabled = @ \/ (~cache_enabled /\ after # cache)]
  /\ cache_ops' = IF cache_enabled THEN cache_ops + 1 ELSE cache_ops
  /\ UNCHANGED <<now, blocked_until, cache_enabled, http_count, ppc, pisin, pinfo, pres,
                 pobs, tripped_by>>
  /\ UNCHANGED <<engVars, batchVars, gstack, gout, gstat, fin, fout, twin, env>>

\* CacheGetDirect with a get that probes the backend again when the cache is
\* disabled and enables it when the probe succeeds.
CacheGetDirectReprobes ==
  /\ cdir.constructed
  /\ calls < MaxCalls
  /\ calls' = calls + 1
  /\ \E key \in ProvIsins : \E backendOk \in BOOLEAN :
       \E on \in {cache_enabled \/ backendOk} :
       \E got \in {cache_get(on, cache, key, backendOk)} :
       /\ cache_enabled' = on
       /\ cdir' = [cdir EXCEPT
                     !.op = "get", !.key = key, !.ok = backendOk,
                     !.probes = IF cache_enabled THEN @ ELSE @ + 1,
                     !.res = IF got = <<>> THEN Absent ELSE Value(got[1])]
  /\ cache_ops' = cache_ops + 1
  /\ UNCHANGED <<now, blocked_until, cache, http_count, ppc, pisin, pinfo,
                 pres, pobs, tripped_by>>
  /\ UNCHANGED <<engVars, batchVars, gstack, gout, gstat, fin, fout, twin, env>>

\* metadata_cache.get(isin), lines 56-66.
CacheGetDirect ==
  /\ cdir.constructed
  /\ calls < MaxCalls
  /\ calls' = calls + 1
  /\ \E key \in ProvIsins : \E backendOk \in BOOLEAN :
       \E got \in {cache_get(cache_enabled, cache, key, backendOk)} :
       cdir' = [cdir EXCEPT
                  !.op = "get", !.key = key, !.ok = backendOk,
                  !.res = IF got = <<>> THEN Absent ELSE Value(got[1])]
  /\ cache_ops' = IF cache_enabled THEN cache_ops + 1 ELSE cache_ops
  /\ UNCHANGED <<now, blocked_until, cache_enabled, cache, http_count, ppc, pisin, pinfo,
                 pres, pobs, tripped_by>>
  /\ UNCHANGED <<engVars, batchVars, gstack, gout, gstat, fin, fout, twin, env>>

\* Another writer leaves data under a key that cannot be decoded.
BackendCorrupts ==
  /\ calls < MaxCalls
  /\ calls' = calls + 1
  /\ \E key \in ProvIsins :
       /\ ~Undecodable(cache, key)
       /\ cache' = [cache EXCEPT ![key] = <<Corrupt>>]
       /\ cdir' = [cdir EXCEPT !.op = "none"]
  /\ UNCHANGED <<now, blocked_until, cache_enabled, http_count, ppc, pisin, pinfo,
                 pres, pobs, tripped_by, cache_ops>>
  /\ UNCHANGED <<engVars, batchVars, gstack, gout, gstat, fin, fout, twin, env>>

\* The process starts: the cache is not constructed yet, the backend holds
\* what an earlier lifetime stored.
InitCache ==
  /\ InitEngine
  /\ InitQuote
  /\ InitFun
  /\ InitTwin
  /\ \E stored \in StoredBefore :
       /\ cdir = CacheClient(FALSE, stored)
       /\ cache = BackendOf(stored)
  /\ now = 0
  /\ blocked_until = <<>>
  /\ cache_enabled = FALSE
  /\ http_count = 0
  /\ calls = 0
  /\ ppc = [t \in Threads |-> "idle"]
  /\ pisin = [t \in Threads |-> <<>>]
  /\ pinfo = [t \in Threads |-> <<>>]
  /\ pres = [t \in Threads |-> Pending]
  /\ pobs = [t \in Threads |-> NoObs]
  /\ tripped_by = <<>>
  /\ cache_ops = 0

NextCache == CacheConstruct \/ CacheSetDirect \/ CacheGetDirect \/ BackendCorrupts

\* The cache used on its own.
SpecCache == InitCache /\ [][NextCache]_vars

\* Provider lookups, one after the other, once the cache is constructed.
CacheProvCall == cdir.constructed /\ SeqCall

NextCacheProv ==
  \/ CacheConstruct
  \/ CacheSetDirect
  \/ CacheGetDirect
  \/ BackendCorrupts
  \/ CacheProvCall
  \/ SeqStep
  \/ SeqReturn

\* The cache used directly and through the provider.
SpecCacheProv == InitCache /\ [][NextCacheProv]_vars

\* ------------------------------------------------- properties of the cache

\* C14: with the cache enabled and the backend answering, get(isin) returns
\* a TickerInfo equal to the one last stored under isin by set, and absent
\* when nothing was ever stored under it.
C14_CacheRoundTrip ==
  (cdir.op = "get" /\ cache_enabled /\ cdir.ok /\ ~Undecodable(cache, cdir.key)) =>
    cdir.res = IF cdir.last_set[cdir.key] = <<>> THEN Absent
               ELSE Value(cdir.last_set[cdir.key][1])

\* A get that returned what an earlier set of this process stored, over the
\* data a previous lifetime had left under the key.
C14_Witness ==
  /\ cdir.op = "get"
  /\ cache_enabled
  /\ cdir.key = IsinU
  /\ cdir.res.kind = "value"
  /\ cdir.res.val[1].currency = <<"USD">>
  /\ calls >= 2

\* C15: while the cache is disabled every get returns absent whatever was
\* set before, and get and set leave the backend alone: no operation beyond
\* the probe of the constructor, no data written.
C15_DisabledCacheInert ==
  (cdir.constructed /\ ~cache_enabled) =>
    /\ cdir.op = "get" => cdir.res = Absent
    /\ cache_ops = 1
    /\ ~cdir.wrote_disabled

\* A get on the disabled cache, for a key the backend holds data for, after
\* a set.
C15_Witness ==
  /\ cdir.constructed
  /\ ~cache_enabled
  /\ cdir.op = "get"
  /\ cdir.key = IsinU
  /\ cache[IsinU] # <<>>
  /\ calls >= 2

\* C16: get and set never raise: a get whose backend call or decoding fails
\* returns absent, a failing set returns as usual; a provider lookup whose
\* cache read failed is no cache hit and goes on to the breaker check, and
\* one whose cache write failed still returns the TickerInfo it scraped.
C16_CacheErrorsSwallowed ==
  /\ cdir.res.kind # "raise"
  /\ (cdir.op = "get" /\ cache_enabled /\ (~cdir.ok \/ Undecodable(cache, cdir.key))) =>
       cdir.res = Absent
  /\ \A t \in Threads :
       /\ pres[t].kind # "raise"
       /\ pobs[t].cache_read_failed =>
            (~pobs[t].cache_hit /\ (ppc[t] = "done" => pobs[t].reported # "none"))
       /\ pobs[t].cache_write_failed =>
            (ppc[t] = "done" /\ pres[t].kind = "value" /\ pobs[t].http = 1)

\* A lookup whose cache read and cache write both failed returned its result.
C16_Witness ==
  \E t \in Threads :
    /\ pobs[t].cache_read_failed
    /\ pobs[t].cache_write_failed
    /\ pres[t].kind = "value"

\* C17: once the constructor's probe has decided `enabled`, no call changes
\* it or probes again, and a disabled cache never contacts the backend.
C17_EnabledDecidedOnce ==
  [][cdir.constructed =>
       /\ cache_enabled' = cache_enabled
       /\ cdir'.probes = 1
       /\ ~cache_enabled => cache_ops' = cache_ops]_vars

\* The probe failed, and gets, sets and a provider lookup followed.
C17_Witness ==
  /\ cdir.constructed
  /\ ~cache_enabled
  /\ cdir.op = "get"
  /\ http_count >= 1
  /\ calls = MaxCalls

\* ------------------------------------------------- quotes

SymIsinLowerSG == IsinL \o <<".","S","G">>
SymOtherSG == IsinOther \o <<".","S","G">>

\* The symbols get_quote is called with.
QuoteSymbols == {SymNatoL, IsinU, SymIsinSG, SymIsinLowerSG, NotAnIsin}

\* The price fields of fast_info and of info.
QuotePrices == {PNone, PNum(0), PNaN, PText, PNum(1234)}

\* The currency field: missing, None, or a code.
QuoteCurrencies == {Missing, PyNone, <<"EUR">>}

DigitOf(n) == <<"0","1","2","3","4","5","6","7","8","9">>[n + 1]

RECURSIVE IntStr(_)
IntStr(n) == IF n < 10 THEN <<DigitOf(n)>> ELSE IntStr(n \div 10) \o <<DigitOf(n % 10)>>

\* f"{price:.4f}", the price given in hundredths
FormatPrice(v) ==
  IntStr(v \div 100) \o <<".", DigitOf((v \div 10) % 10), DigitOf(v % 10), "0", "0">>

\* QuoteRead turning to info also when fast_info is readable but has no
\* valid price.
QuoteReadInfoOnNoPrice(fastRaises, a, b, cur) ==
  [source |-> IF fastRaises \/ PriceOr(a, b).t # "num" \/ PriceOr(a, b).v <= 0
                THEN "info" ELSE "fast_info",
   price |-> PriceOr(a, b),
   currency |-> Get(cur, <<"USD">>)]

\* Lines 369-376: the price and the currency are read from fast_info, or
\* from info when reading fast_info raises; a and b are the two price fields
\* of the dict that is read.
QuoteRead(fastRaises, a, b, cur) ==
  [source |-> IF fastRaises THEN "info" ELSE "fast_info",
   price |-> PriceOr(a, b),
   currency |-> Get(cur, <<"USD">>)]

\* Line 378: price is None or math.isnan(float(price)) or float(price) <= 0
\* (float raises on text before this is decided).
QuotePriceInvalid(price) == price.t \in {"none", "nan"} \/ (price.t = "num" /\ price.v <= 0)

\* Line 383: symbol.split(".")[0] if "." in symbol else symbol
base_part(symbol) == SplitFirst(symbol)

\* Line 384 with is_valid_isin in the place of the regular expression.
LooksLikeIsinAnyCase(base) == is_valid_isin(base)

\* Line 384: re.match(r"^[A-Z]{2}[A-Z0-9]{9}\d$", base_part), on the text as
\* it is.
LooksLikeIsin(base) == IsinPattern(base)

\* A frame of get_quote: its symbol, whether reading fast_info raised, where
\* the price was read, the price, whether the frame ran the Resolution Engine
\* and what that returned.
Frame(symbol) ==
  [symbol |-> symbol, fast_raised |-> FALSE, source |-> "", price |-> PNone,
   repaired |-> FALSE, better |-> Pending]

\* What search_by_isin(base_part) may come to: None, an exception of the
\* primary search (lines 147-152), or a record whose symbol no stage ties
\* to the queried text.
EngineResults(isin) ==
  IF ~is_valid_isin(isin) THEN {Absent}
  ELSE {Absent, Raised("ConnectionError")}
         \cup {Value(InstrumentResponse(isin, sym, NameNatoEtf, "etf", <<"EUR">>, <<"LSE">>)) :
                 sym \in {SymNatoL, SymIsinSG, SymOtherSG, isin}}

\* get_quote(symbol) is called from outside.
QuoteCall ==
  /\ gstat.pc = "idle"
  /\ \E symbol \in QuoteSymbols : gstack' = <<Frame(symbol)>>
  /\ gout' = Pending
  /\ gstat' = [pc |-> "fetch", engine_runs |-> 0, quote_calls |-> 1]
  /\ UNCHANGED provVars
  /\ UNCHANGED <<engVars, batchVars, cdir, fin, fout, twin, env>>

\* Lines 365-399 and 401-413 of the innermost frame, up to the call of the
\* Resolution Engine: the price is read and judged; a valid one is returned
\* as a QuoteResponse (its validation wants a str currency), an invalid one
\* ends the call with None unless the base part looks like an ISIN.
QuoteFetch ==
  /\ gstat.pc = "fetch"
  /\ \E fastRaises \in BOOLEAN : \E infoRaises \in BOOLEAN :
     \E a \in QuotePrices : \E b \in QuotePrices : \E cur \in QuoteCurrencies :
       \E top \in {Len(gstack)} : \E read \in {QuoteRead(fastRaises, a, b, cur)} :
         /\ infoRaises => fastRaises
         /\ gstack' = [gstack EXCEPT ![top].fast_raised = fastRaises,
                                     ![top].source = IF infoRaises THEN "" ELSE read.source,
                                     ![top].price = IF infoRaises THEN PNone ELSE read.price]
         /\ IF infoRaises
              THEN gout' = Raised("Exception") /\ gstat' = [gstat EXCEPT !.pc = "done"]
            ELSE IF read.price.t = "text"
              THEN gout' = Raised("ValueError") /\ gstat' = [gstat EXCEPT !.pc = "done"]
            ELSE IF QuotePriceInvalid(read.price)
              THEN IF LooksLikeIsin(base_part(gstack[top].symbol))
                     THEN gout' = gout /\ gstat' = [gstat EXCEPT !.pc = "repair"]
                     ELSE gout' = Absent /\ gstat' = [gstat EXCEPT !.pc = "done"]
            ELSE IF read.currency = PyNone
              THEN gout' = Raised("ValidationError") /\ gstat' = [gstat EXCEPT !.pc = "done"]
            ELSE /\ gout' = Value(QuoteResponse(gstack[top].symbol, FormatPrice(read.price.v),
                                                read.currency, now))
                 /\ gstat' = [gstat EXCEPT !.pc = "done"]
  /\ UNCHANGED <<provVars, engVars, batchVars, cdir, fin, fout, twin, env>>

\* Lines 388-397: the Resolution Engine runs on the base part; a record
\* with another symbol makes get_quote call itself with that symbol, whose
\* result (or exception) is returned as it is by every frame.
QuoteRepair ==
  /\ gstat.pc = "repair"
  /\ \E top \in {Len(gstack)} :
     \E better \in EngineResults(base_part(gstack[top].symbol)) :
       IF better.kind = "raise"
         THEN /\ gstack' = [gstack EXCEPT ![top].repaired = TRUE, ![top].better = better]
              /\ gout' = Raised(better.err)
              /\ gstat' = [gstat EXCEPT !.pc = "done", !.engine_runs = @ + 1]
       ELSE IF better.kind = "value" /\ better.val[1].symbol # gstack[top].symbol
         THEN IF Len(gstack) < MaxDepth
                THEN /\ gstack' = Append([gstack EXCEPT ![top].repaired = TRUE,
                                                        ![top].better = better],
                                         Frame(better.val[1].symbol))
                     /\ gout' = gout
                     /\ gstat' = [gstat EXCEPT !.pc = "fetch", !.engine_runs = @ + 1,
                                               !.quote_calls = @ + 1]
                ELSE /\ gstack' = [gstack EXCEPT ![top].repaired = TRUE,
                                                 ![top].better = better]
                     /\ gout' = Raised("RecursionError")
                     /\ gstat' = [gstat EXCEPT !.pc = "done", !.engine_runs = @ + 1]
       ELSE /\ gstack' = [gstack EXCEPT ![top].repaired = TRUE, ![top].better = better]
            /\ gout' = Absent
            /\ gstat' = [gstat EXCEPT !.pc = "done", !.engine_runs = @ + 1]
  /\ UNCHANGED <<provVars, engVars, batchVars, cdir, fin, fout, twin, env>>

\* The outermost call has returned to its caller.
QuoteReturn ==
  /\ gstat.pc = "done"
  /\ gstack' = <<>>
  /\ gout' = Pending
  /\ gstat' = [pc |-> "idle", engine_runs |-> 0, quote_calls |-> 0]
  /\ UNCHANGED <<provVars, engVars, batchVars, cdir, fin, fout, twin, env>>

\* The clock between two calls.
QuoteTick ==
  /\ gstat.pc = "idle"
  /\ Tick
  /\ UNCHANGED <<engVars, batchVars, auxVars>>

NextQuote == QuoteCall \/ QuoteFetch \/ QuoteRepair \/ QuoteReturn \/ QuoteTick

\* get_quote, called from outside one call after the other.
SpecQuote == InitProv /\ [][NextQuote]_vars

\* ------------------------------------------------- properties of the quotes

\* C12: starting from one get_quote call the Resolution Engine is re-run at
\* most once and get_quote is called again at most once, whatever the
\* corrected symbol's price and base part are.
C12_RepairBoundedToOneRetry == gstat.engine_runs <= 1 /\ gstat.quote_calls <= 2

\* C13: a call that found the price invalid (missing, NaN or <= 0) ran the
\* Resolution Engine if and only if the base part of its symbol has the
\* format is_valid_isin accepts; it returned the corrected symbol's quote
\* when the engine gave a record with another symbol, and absent otherwise.
C13_RepairIffIsinBase ==
  (gstat.pc = "done" /\ gstack[1].source # "" /\ QuotePriceInvalid(gstack[1].price)) =>
    /\ gstack[1].repaired <=> LooksLikeIsinAnyCase(base_part(gstack[1].symbol))
    /\ IF gstack[1].better.kind = "value"
            /\ gstack[1].better.val[1].symbol # gstack[1].symbol
         THEN Len(gstack) >= 2
         ELSE gout = Absent


\* ------------------------------------------------- one probe

\* The arguments of a primary probe: the queried ISIN, the first quote of
\* the search (whose symbol is probed) and the info the probe reads.
ProbeInput(isin, qt, info) == [isin |-> isin, qt |-> qt, info |-> info]

ProbeInputs ==
  {ProbeInput(IsinU, Quote(sym, name, Missing), info) :
     sym \in {IsinU, SymIsinSG, SymNatoL}, name \in {Missing, NameEtf}, info \in Infos}

\* Lines 102-133: _try_get_instrument_info on the first quote's symbol, and
\* where search_by_isin goes from there.
ProbeApply ==
  /\ fout = <<>>
  /\ \E res \in {try_get_instrument_info(fin.isin, fin.qt.symbol, fin.qt, FALSE, fin.info)} :
       fout' = <<[res |-> res,
                  next |-> IF res # <<>> THEN Goto("done", <<>>)
                           ELSE AfterPrimaryProbe(fin.isin, fin.qt)]>>
  /\ UNCHANGED <<fin, provVars, engVars, batchVars, cdir, gstack, gout, gstat, twin, env>>

\* The caller takes the result.
ProbeDone ==
  /\ fout # <<>>
  /\ fout' = <<>>
  /\ \E input \in ProbeInputs : fin' = input
  /\ UNCHANGED <<provVars, engVars, batchVars, cdir, gstack, gout, gstat, twin, env>>

InitProbe ==
  /\ InitEngine
  /\ InitCacheClient
  /\ InitQuote
  /\ InitTwin
  /\ fin \in ProbeInputs
  /\ fout = <<>>
  /\ now = 0
  /\ blocked_until = <<>>
  /\ cache_enabled = TRUE
  /\ cache = EmptyCache
  /\ http_count = 0
  /\ calls = 0
  /\ ppc = [t \in Threads |-> "idle"]
  /\ pisin = [t \in Threads |-> <<>>]
  /\ pinfo = [t \in Threads |-> <<>>]
  /\ pres = [t \in Threads |-> Pending]
  /\ pobs = [t \in Threads |-> NoObs]
  /\ tripped_by = <<>>
  /\ cache_ops = 0

NextProbe == ProbeApply \/ ProbeDone

\* The primary probe on its own, for every symbol and info of the model.
SpecProbe == InitProbe /\ [][NextProbe]_vars

\* C19: a probe of a symbol whose base part is the queried ISIN is rejected
\* when its info has no long name, whatever the price, and the search goes on
\* with a later stage; with a long name and a valid price it is accepted.
C19_GhostDetection ==
  (fout # <<>> /\ SplitFirst(fin.qt.symbol) = fin.isin) =>
    IF ~Truthy(GetOrNone(fin.info.longName))
      THEN fout[1].res = <<>> /\ fout[1].next.epc \in {"name_search", "fallback"}
    ELSE IF ~PriceInvalid(PriceOr(fin.info.regularMarketPrice, fin.info.currentPrice))
      THEN fout[1].res # <<>> /\ fout[1].res[1].symbol = fin.qt.symbol
    ELSE TRUE

\* ------------------------------------------------- the same lookups without the cache

\* The environments of the provider lookups (the primary source plays no part).
TwinEnvs == {e \in Envs : \A i \in ProvIsins : e.primary[i] = "nothing"}

\* The run with the cache disabled: its breaker field, the outcome of its
\* current lookup, the requests it has issued, whether its open breaker
\* answered the current lookup.
Twin(until, out, http, blocked) ==
  [until |-> until, out |-> out, http |-> http, blocked |-> blocked]

\* A lookup starts in both runs; the run without the cache makes it at once.
TwinCall ==
  /\ \E t \in Threads :
       /\ Alone(t)
       /\ ProvCall(t)
       /\ \E l \in {Lookup(FALSE, EmptyCache, twin.until, now, pisin'[t],
                           env.web[pisin'[t]], TRUE, TRUE)} :
            twin' = Twin(l.until, l.out, twin.http + l.http, l.blocked)
  /\ UNCHANGED <<engVars, batchVars, cdir, gstack, gout, gstat, fin, fout, env>>

\* The steps of the lookup in the run with the cache; the response is the
\* web source's answer for the ISIN.
EnvProvStep(t) ==
  \/ ProvCacheGet(t)
  \/ IsBlockedRead(t)
  \/ IsBlockedCompare(t)
  \/ IsBlockedClear(t)
  \/ HttpSend(t)
  \/ /\ ppc[t] = "http_recv"
     /\ HttpRecvWith(t, env.web[pisin[t]].status, env.web[pisin[t]].page)
  \/ ProvCacheSet(t)

TwinStep == (\E t \in Threads : EnvProvStep(t)) /\ UNCHANGED <<engVars, batchVars, auxVars>>

\* The lookup returns in both runs.
TwinReturn ==
  /\ \E t \in Threads : ProvReturn(t)
  /\ twin' = Twin(twin.until, Pending, twin.http, FALSE)
  /\ UNCHANGED <<engVars, batchVars, cdir, gstack, gout, gstat, fin, fout, env>>

\* Time passes between two lookups, for both runs.
TwinTick ==
  /\ \A t \in Threads : ppc[t] = "idle"
  /\ Tick
  /\ UNCHANGED <<engVars, batchVars, auxVars>>

InitTwinRuns ==
  /\ InitEngine
  /\ InitCacheClient
  /\ InitQuote
  /\ InitFun
  /\ twin = Twin(<<>>, Pending, 0, FALSE)
  /\ env \in TwinEnvs
  /\ now = 0
  /\ blocked_until = <<>>
  /\ cache_enabled = TRUE
  /\ cache = EmptyCache
  /\ http_count = 0
  /\ calls = 0
  /\ ppc = [t \in Threads |-> "idle"]
  /\ pisin = [t \in Threads |-> <<>>]
  /\ pinfo = [t \in Threads |-> <<>>]
  /\ pres = [t \in Threads |-> Pending]
  /\ pobs = [t \in Threads |-> NoObs]
  /\ tripped_by = <<>>
  /\ cache_ops = 0

NextTwin == TwinTick \/ TwinCall \/ TwinStep \/ TwinReturn

\* A sequence of provider lookups made with the cache enabled, starting
\* empty, and the same sequence made with the cache disabled.
SpecTwin == InitTwinRuns /\ [][NextTwin]_vars

\* C18 as stated: call by call, the run with the cache disabled returns the
\* same outcome as the run with the cache enabled.
C18_SameOutcomes == \A t \in Threads : ppc[t] = "done" => pres[t] = twin.out

\* C18, amended: the two runs return the same outcomes except for a lookup
\* made while the breaker is open of an ISIN that was scraped before: the run
\* with the cache answers it from the cache with the TickerInfo the source
\* gives, the run without the cache answers absent; the run with the cache
\* never issues more requests.
C18_CacheOnlyAnswersMore ==
  /\ http_count <= twin.http
  /\ \A t \in Threads :
       (ppc[t] = "done" /\ pres[t] # twin.out) =>
         /\ pobs[t].cache_hit
         /\ twin.blocked
         /\ twin.out = Absent
         /\ pres[t] = Value(ScrapedInfo(env.web[pisin[t]].page))

\* A lookup answered from the cache in one run and by the open breaker in
\* the other, after a tick of the clock.
C18_Witness ==
  \E t \in Threads :
    /\ ppc[t] = "done"
    /\ pobs[t].cache_hit
    /\ twin.blocked
    /\ pres[t].kind = "value"
    /\ now > 0

\* ------------------------------------------------- batch, called directly

\* batch_search_by_isins or batch_get_quotes is called with some list: the
\* wrappers are created and their operations start on worker threads.
BatchCall ==
  /\ bpc = "idle"
  /\ \E op \in BatchOps : \E keys \in SeqsUpTo(BatchKeys(op), MaxBatch) :
       /\ bop' = op
       /\ items' = keys
       /\ opres' = [i \in 1..Len(keys) |-> Pending]
  /\ bpc' = "gather"
  /\ UNCHANGED <<results, errors, provVars, engVars, auxVars>>

\* One of the threaded operations ends, in any order.
BatchItemDone ==
  /\ bpc = "gather"
  /\ \E i \in 1..Len(items) :
       /\ opres[i] = Pending
       /\ \E out \in OpOutcomes(bop, items[i]) : opres' = [opres EXCEPT ![i] = out]
  /\ UNCHANGED <<bpc, bop, items, results, errors, provVars, engVars, auxVars>>

\* gather has every triple: the results and the errors are collected and
\* returned.
BatchReturn ==
  /\ bpc = "gather"
  /\ \A i \in 1..Len(items) : opres[i] # Pending
  /\ \E triples \in {Gathered(bop, items, opres)} :
       IF GatherRaises(triples)
         THEN /\ bpc' = "raised"
              /\ UNCHANGED <<results, errors>>
         ELSE \E c \in {Collect(triples, 1, <<>>, <<>>)} :
                /\ results' = c.results
                /\ errors' = c.errors
                /\ bpc' = "done"
  /\ UNCHANGED <<bop, items, opres, provVars, engVars, auxVars>>

NextBatch == BatchCall \/ BatchItemDone \/ BatchReturn

SpecBatch == InitProv /\ [][NextBatch]_vars

\* ------------------------------------------------- batches over shared sources

\* The environments in which some ISIN needs the secondary provider.
BatchEnvs == {e \in Envs : \E i \in ProvIsins : e.primary[i] = "nothing"}

\* What the primary stages return for an ISIN they resolve.
PrimaryRecord(isin) ==
  InstrumentResponse(isin, SymNato, NameNatoEtf, "etf", <<"EUR">>, <<"LSE">>)

\* search_by_isin for an item, given what the provider lookup (if any) came
\* to: the primary search raises, the primary stages resolve the ISIN, or
\* the secondary fallback decides, returning the provider's suggestion when
\* no probe of it succeeds (lines 342-349).
ItemOutcome(e, isin, looked) ==
  IF e.primary[isin] = "raises" THEN Raised("ConnectionError")
  ELSE IF e.primary[isin] = "record" THEN Value(PrimaryRecord(isin))
  ELSE IF looked.out.kind = "value" THEN Value(RawSuggestion(isin, looked.out.val[1]))
  ELSE Absent

\* The outcome of the same item in a batch of its own: the cache holds
\* nothing and the breaker is closed, as when the batch started.
AloneOutcome(isin) ==
  ItemOutcome(env, isin,
              Lookup(cache_enabled, EmptyCache, <<>>, 0, isin, env.web[isin], TRUE, TRUE))

\* batch_search_by_isins is called with some list of ISINs.
EnvBatchCall ==
  /\ bpc = "idle"
  /\ \E keys \in SeqsUpTo(ProvIsins, MaxBatch) :
       /\ items' = keys
       /\ opres' = [i \in 1..Len(keys) |-> Pending]
  /\ bop' = "search"
  /\ bpc' = "gather"
  /\ UNCHANGED <<results, errors, provVars, engVars, auxVars>>

\* One item's search_by_isin runs on a worker thread, here without another
\* item's lookup in between; the items run in any order.
EnvItemRun ==
  /\ bpc = "gather"
  /\ \E i \in 1..Len(items) : \E readOk \in BOOLEAN : \E writeOk \in BOOLEAN :
       \E looked \in {Lookup(cache_enabled, cache, blocked_until, now, items[i],
                              env.web[items[i]], readOk, writeOk)} :
       /\ opres[i] = Pending
       /\ opres' = [opres EXCEPT ![i] = ItemOutcome(env, items[i], looked)]
       /\ IF env.primary[items[i]] = "nothing"
            THEN /\ cache' = looked.store
                 /\ blocked_until' = looked.until
                 /\ http_count' = http_count + looked.http
            ELSE UNCHANGED <<cache, blocked_until, http_count>>
  /\ UNCHANGED <<now, cache_enabled, calls, ppc, pisin, pinfo, pres, pobs, tripped_by,
                 cache_ops>>
  /\ UNCHANGED <<bpc, bop, items, results, errors, engVars, auxVars>>

InitBatchEnv ==
  /\ InitEngine
  /\ InitCacheClient
  /\ InitQuote
  /\ InitFun
  /\ twin = <<>>
  /\ env \in BatchEnvs
  /\ now = 0
  /\ blocked_until = <<>>
  /\ cache_enabled \in BOOLEAN
  /\ cache = EmptyCache
  /\ http_count = 0
  /\ calls = 0
  /\ ppc = [t \in Threads |-> "idle"]
  /\ pisin = [t \in Threads |-> <<>>]
  /\ pinfo = [t \in Threads |-> <<>>]
  /\ pres = [t \in Threads |-> Pending]
  /\ pobs = [t \in Threads |-> NoObs]
  /\ tripped_by = <<>>
  /\ cache_ops = 0

NextBatchEnv == EnvBatchCall \/ EnvItemRun \/ BatchReturn

\* A batch of searches whose items share the provider and its breaker.
SpecBatchEnv == InitBatchEnv /\ [][NextBatchEnv]_vars

\* ------------------------------------------------- properties of the batches

\* The input positions whose operation returned a record.
Succeeded == {i \in 1..Len(items) : opres[i].kind = "value"}

Failed == (1..Len(items)) \ Succeeded

\* How many positions of S come at or before position i.
RankIn(S, i) == Cardinality({k \in S : k <= i})

NotFoundMessage ==
  IF bop = "search" THEN "No instrument found for ISIN" ELSE "No quote data available"

\* C10: a batch accounts for every input item exactly once, duplicates
\* included: successes and errors add up to the number of inputs; each
\* returned record is one success; each absent result is one error with the
\* item's key and the fixed not-found message; each exception is one error
\* with the item's key and the exception text; both in input order.
C10_BatchAccounting ==
  bpc = "done" =>
    /\ Len(results) + Len(errors) = Len(items)
    /\ Len(results) = Cardinality(Succeeded)
    /\ \A i \in Succeeded : results[RankIn(Succeeded, i)] = opres[i].val[1]
    /\ \A i \in Failed :
         errors[RankIn(Failed, i)] =
           <<items[i], IF opres[i].kind = "absent" THEN NotFoundMessage ELSE opres[i].err>>

\* A batch with a repeated key whose items ended in a record, in absent and
\* in an exception.
C10_Witness ==
  /\ bpc = "done"
  /\ \E i \in 1..Len(items) : \E j \in 1..Len(items) : i # j /\ items[i] = items[j]
  /\ \E i \in 1..Len(items) : opres[i].kind = "value"
  /\ \E i \in 1..Len(items) : opres[i].kind = "absent"
  /\ \E i \in 1..Len(items) : opres[i].kind = "raise"

\* C11 as stated: the batch never raises, and every item that would succeed
\* in a batch of its own is among the successes whatever its siblings did.
C11_SiblingsNeverMatter ==
  /\ bpc # "raised"
  /\ bpc = "done" =>
       \A i \in 1..Len(items) :
         AloneOutcome(items[i]).kind = "value" =>
           \E k \in 1..Len(results) : results[k] = AloneOutcome(items[i]).val[1]

\* C11, amended: the batch never raises because an item's operation raised,
\* and an item's place in the result depends on its own operation's outcome
\* only: a record it returned is among the successes, its exception or its
\* absence is one error under its key, whatever the siblings' operations did.
C11_BatchIsolatesItems ==
  /\ bpc # "raised"
  /\ bpc = "done" =>
       \A i \in 1..Len(items) :
         IF opres[i].kind = "value"
           THEN \E k \in 1..Len(results) : results[k] = opres[i].val[1]
           ELSE \E k \in 1..Len(errors) : errors[k][1] = items[i]

\* Three items: the second raised, the first and the third returned records;
\* two successes and one error, under the second item's key.
C11_Witness ==
  /\ bpc = "done"
  /\ Len(items) = 3
  /\ opres[1].kind = "value" /\ opres[2].kind = "raise" /\ opres[3].kind = "value"
  /\ Len(results) = 2
  /\ Len(errors) = 1
  /\ errors[1][1] = items[2]

\* C20: when the first candidate's symbol without its suffix is the queried
\* ISIN, no base-plus-suffix candidate is probed: the step after the failed
\* primary probe is the name-based search or the secondary provider.
C20_SweepSkippedForIsinBase ==
  (Len(log) >= 2 /\ log[2].step = "primary_probe" /\ RsplitBase(log[2].arg) = q) =>
    /\ \A k \in 1..Len(log) : log[k].step # "sweep"
    /\ (~log[2].ok /\ Len(log) = 2) => epc \in {"name_search", "fallback"}
    /\ Len(log) >= 3 => (~log[2].ok /\ log[3].step \in {"name_search", "provider"})

\* The primary probe of "IE00BK5BQT80.SG" failed and the secondary provider
\* was called next.
C20_Witness ==
  /\ Len(log) >= 3
  /\ log[2].step = "primary_probe"
  /\ log[2].arg = SymIsinSG
  /\ q = IsinU
  /\ log[3].step \in {"name_search", "provider"}

\* ------------------------------------------------- properties of the breaker

\* The calls that started while the breaker was open and for which that
\* timestamp has not elapsed yet.
StartedOpen(t) ==
  /\ ppc[t] # "idle"
  /\ pobs[t].start_until # <<>>
  /\ now < pobs[t].start_until[1]

\* C6: a provider call made after a 403 set blocked_until, and before that
\* timestamp elapses, issues no HTTP request.
C6_NoHttpWhileOpen ==
  \A t \in Threads : StartedOpen(t) => pobs[t].http = 0

\* C7: a provider call made while blocked_until is set and not elapsed
\* returns absent, whichever isin it looks up.
C7_AbsentWhileOpen ==
  \A t \in Threads : (StartedOpen(t) /\ ppc[t] = "done") => pres[t] = Absent

\* C8: a call made once the time has passed blocked_until (and with no new
\* trip since) has its breaker check report not-blocked and, on a cache
\* miss, goes on to issue its HTTP request.
C8_RecoversAfterExpiry ==
  \A t \in Threads :
    (pobs[t].elapsed_at_start /\ ~pobs[t].retripped /\ ~pobs[t].cache_hit) =>
      /\ pobs[t].reported # "blocked"
      /\ ppc[t] = "done" => (pobs[t].reported = "not_blocked" /\ pobs[t].http = 1)

\* C9: whatever the interleaving of the breaker checks and the 403 trips, a
\* trip is not erased before its timestamp elapses.
C9_TripNeverErasedEarly ==
  [][(blocked_until # <<>> /\ blocked_until' = <<>>) => now >= blocked_until[1]]_vars

\* ------------------------------------------------------ the ISIN validator

\* Characters put in place of one character of a well-formed code: a letter,
\* a digit, a punctuation mark and a lowercase letter.
Replacements == {"Z", "7", "-", "q"}

\* Characters appended to a well-formed code.
Trailers == {"\n", "0", "A", " "}

\* The arguments of is_valid_isin: well-formed codes in both cases, the
\* missing value, the empty string, and codes with one character replaced,
\* cut short, or followed by one or two more characters.
IsinInputs ==
  {IsinU, IsinL, IsinOther, NotAnIsin, <<>>, PyNone}
    \cup {[IsinU EXCEPT ![i] = c] : i \in 1..12, c \in Replacements}
    \cup {SubSeq(IsinU, 1, n) : n \in 1..11}
    \cup {Append(code, c) : code \in {IsinU, IsinL}, c \in Trailers}
    \cup {IsinU \o <<"\n", "\n">>}

IsinApply ==
  /\ fout = <<>>
  /\ fout' = <<is_valid_isin(fin)>>
  /\ UNCHANGED <<fin, provVars, engVars, batchVars, cdir, gstack, gout, gstat, twin, env>>

\* The caller takes the verdict and asks about another value.
IsinDone ==
  /\ fout # <<>>
  /\ fout' = <<>>
  /\ \E input \in IsinInputs : fin' = input
  /\ UNCHANGED <<provVars, engVars, batchVars, cdir, gstack, gout, gstat, twin, env>>

InitIsin ==
  /\ InitEngine
  /\ InitCacheClient
  /\ InitQuote
  /\ InitTwin
  /\ fin \in IsinInputs
  /\ fout = <<>>
  /\ now = 0
  /\ blocked_until = <<>>
  /\ cache_enabled = FALSE
  /\ cache = EmptyCache
  /\ http_count = 0
  /\ calls = 0
  /\ ppc = [t \in Threads |-> "idle"]
  /\ pisin = [t \in Threads |-> <<>>]
  /\ pinfo = [t \in Threads |-> <<>>]
  /\ pres = [t \in Threads |-> Pending]
  /\ pobs = [t \in Threads |-> NoObs]
  /\ tripped_by = <<>>
  /\ cache_ops = 0

NextIsin == IsinApply \/ IsinDone

\* The validator on its own, for every argument of the model.
SpecIsin == InitIsin /\ [][NextIsin]_vars

\* Two letters, nine letters or digits, one digit: twelve characters.
TwelveCharCode(s) ==
  /\ Len(s) = 12
  /\ \A i \in 1..2 : s[i] \in UpperLetters
  /\ \A i \in 3..11 : s[i] \in UpperLetters \cup Digits
  /\ s[12] \in Digits

\* C21: is_valid_isin answers true exactly when its argument, uppercased, is
\* twelve characters long, two letters, nine letters or digits and one digit;
\* it answers false for the empty string, the missing value and every other
\* string, the too long ones included.
C21_ValidIffTwelveChars ==
  fout # <<>> =>
    (fout[1] <=> (fin # PyNone /\ fin # <<>> /\ TwelveCharCode(Upper(fin))))

\* --------------------------------------------- order of the engine's sources

PrimarySteps == {"primary_search", "primary_probe", "sweep", "name_search", "name_probe"}

\* C22: in search_by_isin for a valid ISIN the metadata cache is read before
\* any call of the primary client (with the cache enabled, a cache operation
\* has happened by the time the log holds a primary call), and the provider
\* is called only after a primary search.
C22_CacheThenPrimaryThenProvider ==
  /\ (cache_enabled /\ \E k \in 1..Len(log) : log[k].step \in PrimarySteps) => cache_ops >= 1
  /\ \A k \in 1..Len(log) :
       log[k].step = "provider" => \E j \in 1..(k - 1) : log[j].step = "primary_search"

\* The second half of C22 on its own.
ProviderAfterPrimary ==
  \A k \in 1..Len(log) :
    log[k].step = "provider" => \E j \in 1..(k - 1) : log[j].step = "primary_search"

\* ------------------------------------------------------------ HTTP endpoints

Routes == {"search", "quote", "batch_search", "batch_quote"}

\* The service operation behind a route.
OpOf(route) == IF route \in {"search", "batch_search"} THEN "search" ELSE "quotes"

IsBatch(route) == route \in {"batch_search", "batch_quote"}

\* An HTTP answer: the status, the body of a 200 (<<>> when there is none)
\* and the detail of an error, an f-string kept as its literal part and the
\* interpolated value (<<>> when there is none).
HttpAnswer(status, body, detail) == [status |-> status, body |-> body, detail |-> detail]

\* How a try block ends: by a return (raised = ""), by the handler's own
\* HTTPException, or by another Exception (detail holds str(e)).
TryEnd(how, status, body, detail) ==
  [raised |-> how, status |-> status, body |-> body, detail |-> detail]

NotFoundDetail(route) ==
  IF route = "search" THEN "No instrument found for ISIN: " ELSE "No quote found for symbol: "

FailedDetail(route) ==
  CASE route = "search" -> "Failed to search for instrument: "
    [] route = "quote" -> "Failed to get quote: "
    [] route = "batch_search" -> "Failed to perform batch search: "
    [] OTHER -> "Failed to perform batch quote: "

\* Lines 45-53 of the single-item handlers: the service call, the 404 raised
\* for None, the record returned.
single_try(route, ident, out) ==
  IF out.kind = "raise" THEN TryEnd("Exception", 0, <<>>, <<out.err>>)
  ELSE IF out.kind = "absent"
    THEN TryEnd("HTTPException", 404, <<>>, <<NotFoundDetail(route), ident>>)
  ELSE TryEnd("", 200, out.val, <<>>)

\* The except clauses without "except HTTPException: raise": the handler's
\* own 404 falls into "except Exception" and leaves as a 500.
single_except_converts(route, end) ==
  IF end.raised = "" THEN HttpAnswer(200, end.body, <<>>)
  ELSE HttpAnswer(500, <<>>, <<FailedDetail(route), end.detail[1]>>)

\* Lines 55-62 of the single-item handlers.
single_except(route, end) ==
  IF end.raised = "HTTPException" THEN HttpAnswer(end.status, <<>>, end.detail)
  ELSE IF end.raised = "Exception"
    THEN HttpAnswer(500, <<>>, <<FailedDetail(route), end.detail[1]>>)
  ELSE HttpAnswer(200, end.body, <<>>)

\* What batch_search_by_isins / batch_get_quotes comes to for the items'
\* outcomes; whole is an exception that ends the call as a whole (<<>> when
\* there is none).
BatchService(op, keys, outs, whole) ==
  LET triples == Gathered(op, keys, outs) IN
  IF whole # <<>> THEN Raised(whole[1])
  ELSE IF GatherRaises(triples) THEN Raised("Uncaught")
  ELSE Value(Collect(triples, 1, <<>>, <<>>))

\* SearchErrorItem / QuoteErrorItem of an (identifier, message) pair.
ErrorItem(pair) == [key |-> pair[1], error |-> pair[2]]

\* The batch handlers answering 500 as soon as an item is reported in errors.
batch_route_strict(route, svc) ==
  IF svc.kind = "raise" THEN HttpAnswer(500, <<>>, <<FailedDetail(route), svc.err>>)
  ELSE IF svc.val[1].errors # <<>>
    THEN HttpAnswer(500, <<>>, <<FailedDetail(route), svc.val[1].errors[1][2]>>)
  ELSE HttpAnswer(200, <<[results |-> svc.val[1].results, errors |-> <<>>]>>, <<>>)

\* Lines 84-96 of the batch handlers.
batch_route(route, svc) ==
  IF svc.kind = "raise" THEN HttpAnswer(500, <<>>, <<FailedDetail(route), svc.err>>)
  ELSE HttpAnswer(200,
                  <<[results |-> svc.val[1].results,
                     errors |-> [k \in 1..Len(svc.val[1].errors) |->
                                   ErrorItem(svc.val[1].errors[k])]]>>,
                  <<>>)

\* A request with what the service will do for it: the identifiers (one for
\* a single-item route), the outcome of the service operation for each, and
\* the failure of a batch call as a whole, if any.
Request(route, keys, outs, whole) ==
  [route |-> route, keys |-> keys, outs |-> outs, whole |-> whole]

\* The lists of outcomes the service operation may have for a list of keys.
RECURSIVE OutcomeLists(_, _)
OutcomeLists(op, keys) ==
  IF keys = <<>> THEN {<<>>}
  ELSE {Append(o, x) : o \in OutcomeLists(op, SubSeq(keys, 1, Len(keys) - 1)),
                       x \in OpOutcomes(op, keys[Len(keys)])}

\* The identifiers of a request: one for a single-item route, a list (empty
\* or not) for a batch.
KeyLists(route) ==
  {ks \in SeqsUpTo(BatchKeys(OpOf(route)), MaxBatch) : IsBatch(route) \/ Len(ks) = 1}

\* The exceptions that may end a call of the route's service as a whole.
Wholes(route) == IF IsBatch(route) THEN {<<>>} \cup {<<e>> : e \in Errors} ELSE {<<>>}

\* v is a request of the model.
IsRequest(v) ==
  \E route \in Routes : \E keys \in KeyLists(route) :
    \E outs \in OutcomeLists(OpOf(route), keys) : \E whole \in Wholes(route) :
      v = Request(route, keys, outs, whole)

RouteRespond ==
  /\ fout = <<>>
  /\ fout' =
       <<IF IsBatch(fin.route)
           THEN batch_route(fin.route,
                            BatchService(OpOf(fin.route), fin.keys, fin.outs, fin.whole))
           ELSE single_except(fin.route,
                              single_try(fin.route, fin.keys[1], fin.outs[1]))>>
  /\ UNCHANGED <<fin, provVars, engVars, batchVars, cdir, gstack, gout, gstat, twin, env>>

\* The answer is sent.
RouteSent ==
  /\ fout # <<>>
  /\ fout' = <<>>
  /\ UNCHANGED <<fin, provVars, engVars, batchVars, cdir, gstack, gout, gstat, twin, env>>

InitRoute ==
  /\ InitEngine
  /\ InitCacheClient
  /\ InitQuote
  /\ InitTwin
  /\ IsRequest(fin)
  /\ fout = <<>>
  /\ now = 0
  /\ blocked_until = <<>>
  /\ cache_enabled = FALSE
  /\ cache = EmptyCache
  /\ http_count = 0
  /\ calls = 0
  /\ ppc = [t \in Threads |-> "idle"]
  /\ pisin = [t \in Threads |-> <<>>]
  /\ pinfo = [t \in Threads |-> <<>>]
  /\ pres = [t \in Threads |-> Pending]
  /\ pobs = [t \in Threads |-> NoObs]
  /\ tripped_by = <<>>
  /\ cache_ops = 0

NextRoute == RouteRespond \/ RouteSent

\* The four endpoints, for every request of the model.
SpecRoute == InitRoute /\ [][NextRoute]_vars

\* C23: a single-item endpoint answers 200 with the record the service
\* returned, 404 with a detail holding the queried identifier when the
\* service returned nothing (a malformed ISIN included), and 500 with the
\* error text when the service raised; its own 404 never leaves as a 500.
C23_SingleItemStatus ==
  (fout # <<>> /\ ~IsBatch(fin.route)) =>
    CASE fin.outs[1].kind = "value" ->
           fout[1].status = 200 /\ fout[1].body = fin.outs[1].val
      [] fin.outs[1].kind = "absent" ->
           fout[1].status = 404 /\ fout[1].detail[2] = fin.keys[1]
      [] OTHER ->
           fout[1].status = 500 /\ fout[1].detail[2] = fin.outs[1].err

\* A malformed ISIN has been answered 404.
C23_Witness ==
  /\ fout # <<>>
  /\ fin.route = "search"
  /\ ~is_valid_isin(fin.keys[1])
  /\ fout[1].status = 404

\* The positions of a batch whose item failed.
FailedItems == {i \in 1..Len(fin.keys) : fin.outs[i].kind # "value"}

\* C24: a batch endpoint answers 200 whenever the batch call returns,
\* however many items failed, with one entry of errors for each failed item
\* (in input order, under its identifier) and one result for each other
\* item; it answers 500 exactly when the batch call as a whole raised.
C24_BatchStatus ==
  (fout # <<>> /\ IsBatch(fin.route)) =>
    IF fin.whole # <<>>
      THEN fout[1].status = 500 /\ fout[1].detail[2] = fin.whole[1]
      ELSE /\ fout[1].status = 200
           /\ Len(fout[1].body[1].errors) = Cardinality(FailedItems)
           /\ Len(fout[1].body[1].results) = Len(fin.keys) - Cardinality(FailedItems)
           /\ \A i \in FailedItems :
                fout[1].body[1].errors[Cardinality({k \in FailedItems : k <= i})].key
                  = fin.keys[i]

\* A batch whose every item failed, one of them by raising, answered 200.
C24_Witness ==
  /\ fout # <<>>
  /\ IsBatch(fin.route)
  /\ Len(fin.keys) >= 2
  /\ FailedItems = 1..Len(fin.keys)
  /\ \E i \in FailedItems : fin.outs[i].kind = "raise"
  /\ fout[1].status = 200

\* ------------------------------------------- the engine's hand-over and loops

\* The primary search returned no result, or a first result without symbol.
NoUsableCandidate ==
  /\ Len(log) >= 1
  /\ log[1] = Called("primary_search", q, FALSE)
  /\ ~(epc = "done" /\ Len(log) = 1)

ProviderCalls == {k \in 1..Len(log) : log[k].step = "provider"}

\* C25: when the primary search returns no candidates, or a first candidate
\* without symbol, search_by_isin makes no probe, sweep or name search of its
\* own: its next call is the secondary fallback, called once with the ISIN,
\* every later call belongs to that fallback, and what the fallback returns
\* is returned (absent when the provider returned nothing).
C25_NoCandidateGoesToFallback ==
  NoUsableCandidate =>
    /\ \A k \in 2..Len(log) : StageOf(log[k].step) = 6
    /\ Cardinality(ProviderCalls) <= 1
    /\ Len(log) >= 2 => log[2] = Called("provider", q, FALSE)
    /\ epc = "done" =>
         /\ ProviderCalls = {2}
         /\ tinfo = <<>> => outcome = Absent /\ Len(log) = 2
         /\ outcome.kind \in {"value", "absent"}
         /\ outcome.kind = "value" => tinfo # <<>>

\* The search returned nothing usable and the fallback's record came back.
C25_Witness ==
  /\ NoUsableCandidate
  /\ epc = "done"
  /\ outcome.kind = "value"
  /\ Len(log) >= 3

\* The same with a provider that had nothing.
C25_WitnessAbsent ==
  /\ NoUsableCandidate
  /\ epc = "done"
  /\ tinfo = <<>>
  /\ outcome = Absent

\* The order of the sweep as the design gives it: .DE, .L, .PA, .AS, .MI,
\* .SW, .MC, .BR, no suffix, .TO, .AX, .HK, .T.
SweepOrder ==
  << <<".","D","E">>, <<".","L">>, <<".","P","A">>, <<".","A","S">>,
     <<".","M","I">>, <<".","S","W">>, <<".","M","C">>, <<".","B","R">>,
     <<>>, <<".","T","O">>, <<".","A","X">>, <<".","H","K">>, <<".","T">> >>

IsSweep(entry) == entry.step = "sweep"

\* The sweep's probes so far, in the order they were made.
Sweeps == SelectSeq(log, IsSweep)

\* The symbol probed in stage 3.
StageThreeSymbol == log[2].arg

\* Base plus suffix for every suffix of the order, the stage-3 symbol left out.
ExpectedSweep ==
  LET Fresh(symbol) == symbol # StageThreeSymbol
      all == [k \in 1..Len(SweepOrder) |-> RsplitBase(StageThreeSymbol) \o SweepOrder[k]]
  IN SelectSeq(all, Fresh)

\* C26: the suffix sweep probes base + suffix in the fixed order, never
\* probes the stage-3 symbol again, and stops at the first valid probe,
\* whose record search_by_isin returns.
C26_SweepOrderAndStop ==
  (\E k \in 1..Len(log) : IsSweep(log[k])) =>
    LET made == Sweeps
        expected == ExpectedSweep IN
    /\ Len(made) <= Len(expected)
    /\ \A k \in 1..Len(made) :
         /\ made[k].arg = expected[k]
         /\ made[k].arg # StageThreeSymbol
         /\ k < Len(made) => ~made[k].ok
    /\ made[Len(made)].ok =>
         /\ LastCall = made[Len(made)]
         /\ epc = "done"
         /\ outcome.kind = "value"
         /\ outcome.val[1].symbol = LastCall.arg

\* A sweep that passed over the stage-3 symbol (one of its probes is not at
\* the suffix's own position) and ended with a valid probe.
C26_Witness ==
  /\ \E k \in 1..Len(Sweeps) :
       Sweeps[k].arg # RsplitBase(StageThreeSymbol) \o SweepOrder[k]
  /\ Sweeps[Len(Sweeps)].ok
  /\ epc = "done"

\* The calls made inside _try_justetf_fallback after the provider answered.
FallbackCalls ==
  IF ProviderCalls = {} THEN <<>>
  ELSE SubSeq(log, (CHOOSE k \in ProviderCalls : TRUE) + 1, Len(log))

\* The suggested ticker with every suffix of the order, the suggested symbol
\* itself left out.
ExpectedCross ==
  LET Other(symbol) == symbol # tinfo[1].symbol
      all == [k \in 1..Len(SweepOrder) |-> SplitFirst(tinfo[1].symbol) \o SweepOrder[k]]
  IN SelectSeq(all, Other)

\* C27: inside the secondary fallback the calls come in this order: the probe
\* of the suggested symbol, the suggested ticker with every suffix (the
\* suggested symbol skipped), one name-based search with the provider's name,
\* the probes of its results; a valid probe ends the search, and when none is
\* valid the raw suggestion is returned.  The name search is made once and
\* only after the direct probe and every cross probe failed.
C27_FallbackOrder ==
  ProviderCalls # {} /\ LastCall.step # "provider" =>
    LET fb == FallbackCalls
        cross == ExpectedCross IN
    /\ \A k \in 1..Len(fb) :
         /\ k = 1 => fb[k] = Called("fb_probe", tinfo[1].symbol, fb[k].ok)
         /\ (1 < k /\ k <= 1 + Len(cross)) => fb[k] = Called("cross", cross[k - 1], fb[k].ok)
         /\ k = 2 + Len(cross) =>
              /\ fb[k].step = "fb_name_search"
              /\ fb[k].arg = search_query(tinfo[1].name)
              /\ \A j \in 1..(k - 1) : ~fb[j].ok
         /\ k > 2 + Len(cross) => fb[k].step = "fb_name_probe"
         /\ (k < Len(fb) /\ IsProbe(fb[k].step)) => ~fb[k].ok
    /\ (epc = "done" /\ ~(IsProbe(LastCall.step) /\ LastCall.ok)) =>
         /\ Len(fb) >= 2 + Len(cross)
         /\ outcome = Value(InstrumentResponse(q, tinfo[1].symbol, tinfo[1].name, "etf",
                                               tinfo[1].currency, tinfo[1].exchange))

\* The whole order was run: direct probe, every cross probe, the name search
\* and a probe of one of its results, which was valid.
C27_Witness ==
  /\ FallbackCalls # <<>>
  /\ Len(FallbackCalls) > 2 + Len(ExpectedCross)
  /\ Len(ExpectedCross) < Len(SweepOrder)
  /\ LastCall.step = "fb_name_probe"
  /\ LastCall.ok
  /\ epc = "done"

\* Nothing was valid and the raw suggestion came back.
C27_WitnessRaw ==
  /\ FallbackCalls # <<>>
  /\ epc = "done"
  /\ ~LastCall.ok
  /\ outcome.kind = "value"

\* ------------------------------------------------ what changes the breaker

\* A thread receives a response and blocked_until becomes the time of
\* receipt plus ten minutes.
ChangedByTrip ==
  /\ \E t \in Threads : ppc[t] = "http_recv" /\ ppc'[t] = "done"
  /\ blocked_until' = <<now + BLOCK_MINUTES>>

\* blocked_until held an elapsed timestamp and becomes empty.
ChangedByExpiry ==
  /\ BreakerElapsed
  /\ blocked_until' = <<>>

\* C28: blocked_until changes in two ways only: a 403 sets it to the time of
\* receipt plus ten minutes, and a breaker check that finds it elapsed resets
\* it to empty; no other step of a lookup changes it.
C28_OnlyTripAndExpiryChange ==
  [][blocked_until' # blocked_until => (ChangedByTrip \/ ChangedByExpiry)]_vars

\* --------------------------------------------- lookups after a successful one

\* What is remembered of the lookups for an ISIN: the TickerInfo the first
\* successful one returned (<<>> before it), the number of the call that
\* made it, and whether the cache backend has failed on an operation for the
\* ISIN since, the write of that lookup included.
Memo(got, first, faulty) == [got |-> got, first |-> first, faulty |-> faulty]

NoMemo == Memo(<<>>, 0, FALSE)

\* The memory after thread t's step.
Remember(t) ==
  LET old == twin[pisin[t]]
      failed == pobs'[t].cache_read_failed \/ pobs'[t].cache_write_failed IN
  IF old.got = <<>>
    THEN IF ppc'[t] = "done" /\ pres'[t].kind = "value"
           THEN [twin EXCEPT ![pisin[t]] = Memo(pres'[t].val, calls, failed)]
           ELSE twin
    ELSE [twin EXCEPT ![pisin[t]].faulty = old.faulty \/ failed]

\* A step of a provider lookup, remembered.
MemoStep ==
  /\ \E t \in Threads :
       /\ ProvStep(t)
       /\ twin' = Remember(t)
  /\ UNCHANGED <<engVars, batchVars, cdir, gstack, gout, gstat, fin, fout, env>>

InitMemo ==
  /\ InitEngine
  /\ InitCacheClient
  /\ InitQuote
  /\ InitFun
  /\ twin = [i \in ProvIsins |-> NoMemo]
  /\ env = <<>>
  /\ now = 0
  /\ blocked_until = <<>>
  /\ cache_enabled = TRUE
  /\ cache = EmptyCache
  /\ http_count = 0
  /\ calls = 0
  /\ ppc = [t \in Threads |-> "idle"]
  /\ pisin = [t \in Threads |-> <<>>]
  /\ pinfo = [t \in Threads |-> <<>>]
  /\ pres = [t \in Threads |-> Pending]
  /\ pobs = [t \in Threads |-> NoObs]
  /\ tripped_by = <<>>
  /\ cache_ops = 0

NextMemo == SeqTick \/ SeqCall \/ MemoStep \/ SeqReturn

\* Lookups made one after the other with the cache enabled, the first
\* success for each ISIN remembered.
SpecMemo == InitMemo /\ [][NextMemo]_vars

\* Thread t's lookup has ended and an earlier lookup for its ISIN succeeded.
LaterLookupDone(t) ==
  /\ ppc[t] = "done"
  /\ twin[pisin[t]].got # <<>>
  /\ calls > twin[pisin[t]].first

\* C29 as stated: with the cache enabled, once a lookup for an ISIN has
\* succeeded, every later lookup for that ISIN returns an equal TickerInfo
\* and issues no HTTP request.
C29_LaterLookupsFromCache ==
  \A t \in Threads :
    (cache_enabled /\ LaterLookupDone(t)) =>
      pres[t] = Value(twin[pisin[t]].got[1]) /\ pobs[t].http = 0

\* C29, amended: with the cache enabled, once a lookup for an ISIN has
\* succeeded, every later lookup for that ISIN returns an equal TickerInfo
\* and issues no HTTP request, as long as the cache backend has answered
\* every operation for the ISIN since, the write of that first lookup
\* included.
C29_LaterLookupsFromCacheIfBackendAnswers ==
  \A t \in Threads :
    (cache_enabled /\ LaterLookupDone(t) /\ ~twin[pisin[t]].faulty) =>
      /\ pres[t] = Value(twin[pisin[t]].got[1])
      /\ pobs[t].http = 0
      /\ pobs[t].cache_hit

\* A later lookup answered from the cache while the breaker was open.
C29_Witness ==
  \E t \in Threads :
    /\ cache_enabled
    /\ LaterLookupDone(t)
    /\ ~twin[pisin[t]].faulty
    /\ pobs[t].cache_hit
    /\ BreakerOpen

\* ------------------------------------------------- the name-based search

\* The name-based search, with what yf.Search returned kept for inspection
\* (nothing when it raised).
NameSearchSeen ==
  /\ \E raises \in BOOLEAN : \E quotes \in (IF raises THEN {<<>>} ELSE NameQuoteLists) :
       /\ NameSearchWith(raises, quotes)
       /\ fin' = <<quotes>>
  /\ UNCHANGED <<cdir, gstack, gout, gstat, fout, twin, env>>

\* search_by_isin up to its hand-over to the secondary fallback.
NextName ==
  \/ Call
  \/ PrimarySearch
  \/ PrimaryProbe
  \/ LoopProbe
  \/ NameSearchSeen

SpecName == Init /\ [][NextName]_vars

IsNameProbe(entry) == entry.step = "name_probe"

\* The candidates the name search may probe: the first three results, those
\* without symbol or with a symbol containing the queried ISIN left out.
ExpectedNameProbes ==
  LET Eligible(c) == Truthy(GetOrNone(c.symbol)) /\ ~Contains(q, c.symbol)
      top == SubSeq(fin[1], 1, IF Len(fin[1]) < 3 THEN Len(fin[1]) ELSE 3)
  IN SelectSeq(top, Eligible)

\* C30: the name-based search of stage 5 runs only when the first candidate
\* of the original search carried a display name; its probes are, in order,
\* the first three results without those that have no symbol or whose symbol
\* contains the queried ISIN; the first valid probe ends the search and its
\* record is returned, so a record of the name-based search never has a
\* symbol containing the queried ISIN.
C30_NameSearchProbes ==
  (\E k \in 1..Len(log) : log[k].step = "name_search") =>
    LET made == SelectSeq(log, IsNameProbe)
        expected == ExpectedNameProbes IN
    /\ Truthy(GetOrNone(quote.shortname)) \/ Truthy(GetOrNone(quote.longname))
    /\ Len(made) <= Len(expected)
    /\ Len(made) <= 3
    /\ \A k \in 1..Len(made) :
         /\ made[k].arg = expected[k].symbol
         /\ ~Contains(q, made[k].arg)
         /\ k < Len(made) => ~made[k].ok
    /\ (made # <<>> /\ made[Len(made)].ok) =>
         /\ LastCall = made[Len(made)]
         /\ epc = "done"
         /\ outcome.kind = "value"
         /\ outcome.val[1].symbol = LastCall.arg
         /\ ~Contains(q, outcome.val[1].symbol)
    /\ (epc = "fallback" /\ LastCall.step \in {"name_search", "name_probe"}) =>
         Len(made) = Len(expected)

\* A name search whose first results were passed over (one without symbol or
\* with the ISIN in its symbol) and whose second probe was valid.
C30_Witness ==
  /\ fin # <<>>
  /\ Len(fin[1]) >= 3
  /\ \E k \in 1..3 : Truthy(GetOrNone(fin[1][k].symbol)) /\ Contains(q, fin[1][k].symbol)
  /\ LastCall.step = "name_probe"
  /\ LastCall.ok
  /\ \E k \in 1..(Len(log) - 1) : log[k].step = "name_probe"
  /\ epc = "done"

\* ------------------------------------------------- what a valid probe yields

\* The price a probe judges, as the design describes a valid one: present,
\* numeric, not NaN and above zero.
PricedAboveZero(info) ==
  \E p \in {info.regularMarketPrice, info.currentPrice} :
    /\ p.t = "num"
    /\ p.v > 0
    /\ p = PriceOr(info.regularMarketPrice, info.currentPrice)

\* C31: a probe whose price is present, numeric, not NaN and above zero, and
\* which is no ghost, yields a record whatever the other fields of the info
\* hold (present, missing or null).
C31_ValidProbeYieldsRecord ==
  (fout # <<>> /\ PricedAboveZero(fin.info) /\ ~IsGhost(fin.isin, fin.qt.symbol, fin.info)) =>
    fout[1].res # <<>>

\* ------------------------------------------------- when the provider is called

\* Every primary stage that applies has run and failed: the probe of the
\* first candidate's symbol, the whole sweep unless that symbol's base is the
\* ISIN, the name-based search if the first candidate has a name.
PrimaryStagesFailed ==
  LET made == Sweeps
      expected == ExpectedSweep IN
  /\ Len(log) >= 2
  /\ log[1].ok
  /\ log[2] = Called("primary_probe", quote.symbol, FALSE)
  /\ \A k \in 1..Len(log) : IsProbe(log[k].step) => ~log[k].ok
  /\ RsplitBase(quote.symbol) # q =>
       /\ Len(made) = Len(expected)
       /\ \A k \in 1..Len(made) : made[k].arg = expected[k]
  /\ (Truthy(GetOrNone(quote.shortname)) \/ Truthy(GetOrNone(quote.longname))) =>
       \E k \in 1..Len(log) : log[k].step = "name_search"

\* The search returned no usable candidate and nothing else was called.
DirectPath == Len(log) = 1 /\ log[1] = Called("primary_search", q, FALSE)

\* C32: one search_by_isin calls the secondary provider at most once, and
\* only when the primary probe, the sweep (unless skipped) and the name-based
\* search (if there is a name) have all failed, or directly when the primary
\* search had no usable candidate.
C32_ProviderOnceAndLast ==
  [][ProviderCalls' # ProviderCalls =>
       /\ ProviderCalls = {}
       /\ Cardinality(ProviderCalls') = 1
       /\ DirectPath \/ PrimaryStagesFailed]_vars

\* The provider was called after a failed probe, a full sweep and a name
\* search whose probes failed.
C32_Witness ==
  /\ Cardinality(ProviderCalls) = 1
  /\ Len(Sweeps) >= Len(SweepOrder) - 1
  /\ \E k \in 1..Len(log) : log[k].step = "name_probe"

\* ------------------------------------------------- what changes the cache

\* Thread t's lookup issued its request, extracted a ticker and, in this
\* step, stores the TickerInfo it returns under its ISIN and nowhere else.
CachedBySuccessfulScrape(t) ==
  /\ ppc[t] = "cache_set"
  /\ ppc'[t] = "done"
  /\ pobs[t].http = 1
  /\ ~pobs[t].cache_hit
  /\ pres'[t].kind = "value"
  /\ Truthy(pres'[t].val[1].symbol)
  /\ cache' = [cache EXCEPT ![pisin[t]] = <<to_dict(pres'[t].val[1])>>]

\* C33: the provider writes to the cache only at the end of a fully
\* successful scrape (HTTP success and a ticker extracted), storing what the
\* lookup returns; a lookup that ends in a cache hit, a blocked breaker, a
\* 403, another HTTP or network error, a page without ticker or a parse
\* error leaves the cache unchanged.
C33_CacheWrittenOnlyOnSuccess ==
  [][cache' # cache => \E t \in Threads : CachedBySuccessfulScrape(t)]_vars

\* C33, its consequence: a lookup that ended absent has left the cache as it
\* was when the lookup last read it: nothing is stored under its ISIN unless
\* another lookup stored it.
AbsentNeverCached ==
  \A t \in Threads :
    (ppc[t] = "done" /\ pres[t] = Absent /\ Alone(t) /\ calls = 1) => cache = EmptyCache

\* A lookup ended absent after an HTTP request while the cache held another
\* lookup's entry, and only that.
C33_Witness ==
  \E t \in Threads :
    /\ cache_enabled
    /\ ppc[t] = "done"
    /\ pres[t] = Absent
    /\ pobs[t].http = 1
    /\ cache[pisin[t]] = <<>>
    /\ cache # EmptyCache

\* ------------------------------------------------- where get_quote reads prices

\* The frames of get_quote that have read their price.
FramesRead == {k \in 1..Len(gstack) : gstack[k].source # "" \/ gstack[k].fast_raised}

\* C34: a call of get_quote reads info only when reading fast_info raised;
\* when fast_info was readable and its price is missing, NaN or <= 0, info
\* is not read and the call goes on to the self-repair or returns absent.
C34_InfoOnlyWhenFastRaises ==
  \A k \in FramesRead :
    /\ gstack[k].source = "info" => gstack[k].fast_raised
    /\ ~gstack[k].fast_raised =>
         /\ gstack[k].source = "fast_info"
         /\ QuotePriceInvalid(gstack[k].price) =>
              \/ gstack[k].repaired
              \/ k = Len(gstack) /\ gstat.pc = "repair"
              \/ k = Len(gstack) /\ gstat.pc = "done" /\ gout = Absent

\* fast_info was readable without a price, the symbol is no ISIN, and the
\* call returned absent without reading info.
C34_Witness ==
  /\ gstat.pc = "done"
  /\ Len(gstack) = 1
  /\ ~gstack[1].fast_raised
  /\ gstack[1].source = "fast_info"
  /\ gstack[1].price = PNone
  /\ gout = Absent

\* The same with a symbol that sent the call to the self-repair.
C34_WitnessRepair ==
  /\ Len(gstack) >= 2
  /\ ~gstack[1].fast_raised
  /\ gstack[1].price.t = "num"
  /\ gstack[1].price.v <= 0
  /\ gstack[1].repaired

\* ------------------------------------------------- how much one search calls

\* How many calls of the given kinds the log holds.
CallCount(steps) == Cardinality({k \in 1..Len(log) : log[k].step \in steps})

\* The order in which search_by_isin goes through its calls.
StepRank(step) ==
  CASE step = "primary_search" -> 1
    [] step = "primary_probe" -> 2
    [] step = "sweep" -> 3
    [] step = "name_search" -> 4
    [] step = "name_probe" -> 5
    [] step = "provider" -> 6
    [] step = "fb_probe" -> 7
    [] step = "cross" -> 8
    [] step = "fb_name_search" -> 9
    [] OTHER -> 10

\* The calls of one invocation stay within the stated numbers, and a call of
\* an earlier kind never follows one of a later kind.
CallsBounded ==
  /\ CallCount({"primary_search"}) <= 1
  /\ CallCount({"name_search"}) <= 1
  /\ CallCount({"fb_name_search"}) <= 1
  /\ CallCount({"primary_search", "name_search", "fb_name_search"}) <= 3
  /\ CallCount({"primary_probe"}) <= 1
  /\ CallCount({"sweep"}) <= 13
  /\ CallCount({"name_probe"}) <= 3
  /\ CallCount({"fb_probe"}) <= 1
  /\ CallCount({"cross"}) <= 13
  /\ CallCount({"fb_name_probe"}) <= 3
  /\ CallCount({"primary_probe", "sweep", "name_probe",
                "fb_probe", "cross", "fb_name_probe"}) <= 34
  /\ CallCount({"provider"}) <= 1
  /\ \A i \in 1..Len(log) : \A j \in 1..Len(log) :
       i < j => StepRank(log[i].step) <= StepRank(log[j].step)
  /\ \A i \in 1..Len(log) : \A j \in 1..Len(log) :
       (i < j /\ ~IsProbe(log[i].step)) => log[i].step # log[j].step

\* Outside the provider call, every step of a running search makes one more
\* collaborator call; a search that has returned makes none.
EveryStepCalls ==
  /\ (epc \notin {"idle", "in_provider", "done"} /\ epc' # epc) => Len(log') = Len(log) + 1
  /\ (epc \notin {"idle", "in_provider", "done"} /\ epc' = epc) => Len(log') >= Len(log)
  /\ epc = "done" => (epc' = "done" /\ log' = log /\ outcome' = outcome)

\* C35: one search_by_isin makes at most 3 primary searches (ISIN, stage-5
\* name, provider name), at most 34 probes (1 + 13 + 3 in the primary
\* stages, 1 + 13 + 3 in the fallback) and at most 1 provider call, whatever
\* the collaborators answer; no stage is entered twice, every step makes a
\* further call or ends the search, so the search ends.
C35_BoundedCalls == [](CallsBounded) /\ [][EveryStepCalls]_vars

\* A search that went through every stage: three searches, the provider, and
\* three probes of the last name search's results.
C35_Witness ==
  /\ epc = "done"
  /\ CallCount({"primary_search", "name_search", "fb_name_search"}) = 3
  /\ CallCount({"provider"}) = 1
  /\ CallCount({"name_probe"}) = 3
  /\ CallCount({"fb_name_probe"}) = 3
  /\ CallCount({"sweep"}) >= 12
  /\ CallCount({"cross"}) >= 12

\* ------------------------------------------------- the identifier returned

\* C36: every record search_by_isin(q) returns carries isin = q, character
\* for character as it was passed, whether a probe built it (lines 197-204)
\* or the provider's suggestion was returned as it is (lines 342-349).
C36_RecordCarriesQuery ==
  (epc = "done" /\ outcome.kind = "value") => outcome.val[1].isin = q

\* A lower-case query answered by a probe's record.
C36_Witness ==
  /\ epc = "done" /\ outcome.kind = "value"
  /\ q = IsinL
  /\ outcome.val[1].isin = IsinL
  /\ CallCount({"provider"}) = 0

\* A lower-case query answered with the provider's suggestion as it is.
C36_WitnessRaw ==
  /\ epc = "done" /\ outcome.kind = "value"
  /\ q = IsinL
  /\ CallCount({"provider"}) = 1
  /\ CallCount({"fb_probe", "cross", "fb_name_probe"}) > 0
  /\ \A k \in 1..Len(log) : ~log[k].ok

\* ------------------------------------------------- the order of a batch's lists

\* BatchItemDone, with the order in which the operations end kept in fin.
BatchItemDoneSeen ==
  /\ bpc = "gather"
  /\ \E i \in 1..Len(items) :
       /\ opres[i] = Pending
       /\ \E out \in OpOutcomes(bop, items[i]) : opres' = [opres EXCEPT ![i] = out]
       /\ fin' = Append(fin, i)
  /\ UNCHANGED <<bpc, bop, items, results, errors, provVars, engVars>>
  /\ UNCHANGED <<cdir, gstack, gout, gstat, fout, twin, env>>

NextOrder == BatchCall \/ BatchItemDoneSeen \/ BatchReturn

SpecOrder == InitProv /\ [][NextOrder]_vars

\* The positions of S, smallest first.
InInputOrder(S) == [k \in 1..Cardinality(S) |-> CHOOSE i \in S : RankIn(S, i) = k]

\* The operations ended in another order than the inputs came in.
CompletedOutOfOrder == \E a \in 1..Len(fin) : \E b \in 1..Len(fin) : a < b /\ fin[a] > fin[b]

\* C37: the lists a batch returns are ordered by the inputs alone: the
\* successes are the records of the succeeding inputs in input order, the
\* errors those of the failing inputs in input order, in whatever order the
\* operations ended.
C37_ListsInInputOrder ==
  bpc = "done" =>
    LET ok == InInputOrder(Succeeded)
        bad == InInputOrder(Failed)
    IN /\ results = [k \in 1..Len(ok) |-> opres[ok[k]].val[1]]
       /\ [k \in 1..Len(errors) |-> errors[k][1]] = [k \in 1..Len(bad) |-> items[bad[k]]]

\* Two different successes, or two errors with different keys, where the
\* operation that ended first was not the first of them in the input.
C37_Witness ==
  /\ bpc = "done"
  /\ CompletedOutOfOrder
  /\ \/ /\ Len(results) >= 2 /\ results[1] # results[2]
        /\ fin[1] \in Succeeded /\ \E i \in Succeeded : i < fin[1]
     \/ /\ Len(errors) >= 2 /\ errors[1][1] # errors[2][1]
        /\ fin[1] \in Failed /\ \E i \in Failed : i < fin[1]

\* ------------------------------------------------- lower-case queries

\* Line 110 for the upper-case form of the query: the first symbol's base is
\* the identifier, so the sweep is skipped.
SweepSkippedForUpper ==
  (Len(log) >= 2 /\ log[2].step = "primary_probe" /\ RsplitBase(log[2].arg) = Upper(q)) =>
    CallCount({"sweep"}) = 0

\* Lines 266-267 for the upper-case form of the query: no symbol holding the
\* identifier is probed after a name search.
NameFilterForUpper ==
  \A k \in 1..Len(log) :
    log[k].step \in {"name_probe", "fb_name_probe"} => ~Contains(Upper(q), log[k].arg)

\* C38: a query is_valid_isin accepts is treated in lower or mixed case as
\* its upper-case form is: the sweep is skipped when the first symbol's
\* base is the identifier, and the name search's results holding the
\* identifier are not probed.
C38_CaseConsistent ==
  is_valid_isin(q) => (SweepSkippedForUpper /\ NameFilterForUpper)

\* The same for upper-case queries alone.
UpperCaseConsistent ==
  (is_valid_isin(q) /\ q = Upper(q)) => (SweepSkippedForUpper /\ NameFilterForUpper)

\* ------------------------------------------------- the symbol of a quote

\* The symbol get_quote was called with, and the one whose price was read
\* last.
AskedSymbol == gstack[1].symbol

PricedSymbol == gstack[Len(gstack)].symbol

\* batch_get_quotes over the one symbol asked, with the call's result.
BatchOfOne == Collect(Gathered("quotes", <<AskedSymbol>>, <<gout>>), 1, <<>>, <<>>)

\* C39: the record get_quote(s) returns carries the symbol that was priced:
\* s when no repair took place, the corrected symbol, different from s, when
\* a repair succeeded; in a batch the repaired item is exactly one success
\* for the input s, carrying the corrected symbol, and no error.
C39_QuoteCarriesPricedSymbol ==
  (gstat.pc = "done" /\ gout.kind = "value") =>
    /\ gout.val[1].symbol = PricedSymbol
    /\ Len(gstack) = 1 => gout.val[1].symbol = AskedSymbol
    /\ Len(gstack) > 1 => gout.val[1].symbol # AskedSymbol
    /\ BatchOfOne.results = <<gout.val[1]>>
    /\ BatchOfOne.errors = <<>>

\* The same without the statement that a repaired quote's symbol differs
\* from the symbol asked.
QuoteCarriesPricedSymbol ==
  (gstat.pc = "done" /\ gout.kind = "value") =>
    /\ gout.val[1].symbol = PricedSymbol
    /\ Len(gstack) = 1 => gout.val[1].symbol = AskedSymbol
    /\ BatchOfOne.results = <<gout.val[1]>>
    /\ BatchOfOne.errors = <<>>

\* The same after at most one repair.
OneRepairChangesSymbol ==
  (gstat.pc = "done" /\ gout.kind = "value" /\ Len(gstack) = 2) =>
    gout.val[1].symbol # AskedSymbol


====
